---- MODULE Spec2Model ----
(***************************************************************************)
(* A model of python_utils/unit_converter.py: the unit catalog, the unit   *)
(* expression parser (Unit._process_unit, Unit._parse_unit_prefix), the    *)
(* unit algebra (Unit.__call__, Unit.factor, Unit.__iter__) and the        *)
(* conversion engine (convert, _temperature_conversion,                    *)
(* _get_conversion_factor).                                                *)
(*                                                                         *)
(* Strings are sequences of one-character strings.  Numbers (int, float    *)
(* and decimal.Decimal values of the program) are exact rationals          *)
(* n/d * 10^e; the rounding the program does explicitly (round, int) is    *)
(* modelled, the rounding error of binary floating point and of the        *)
(* 28-digit decimal context is not.  Python exceptions are results         *)
(* [exc |-> <class name>].                                                 *)
(***************************************************************************)
EXTENDS Integers, Sequences, FiniteSets, TLC

(***************************************************************************)
(* Exact numbers: n/d * 10^e with gcd(n, d) = 1, d > 0 coprime to 10 and   *)
(* n not divisible by 10 (0 is 0/1 * 10^0), so equal numbers are equal     *)
(* records.                                                                *)
(***************************************************************************)
Abs(i) == IF i < 0 THEN -i ELSE i

RECURSIVE GCD(_, _)
GCD(a, b) == IF b = 0 THEN a ELSE GCD(b, a % b)

RECURSIVE Pow10(_)
Pow10(k) == IF k = 0 THEN 1 ELSE 10 * Pow10(k - 1)

RECURSIVE NormDen(_, _, _)
NormDen(n, d, e) ==
    IF d % 2 = 0 THEN NormDen(n * 5, d \div 2, e - 1)
    ELSE IF d % 5 = 0 THEN NormDen(n * 2, d \div 5, e - 1)
    ELSE [n |-> n, d |-> d, e |-> e]

RECURSIVE NormNum(_, _, _)
NormNum(n, d, e) ==
    IF n % 10 = 0 THEN NormNum(n \div 10, d, e + 1)
    ELSE [n |-> n, d |-> d, e |-> e]

Norm(n, d, e) ==
    IF n = 0 THEN [n |-> 0, d |-> 1, e |-> 0]
    ELSE LET s == IF d < 0 THEN -1 ELSE 1
             g == GCD(Abs(n), Abs(d))
             a == NormDen((s * n) \div g, Abs(d) \div g, e)
             h == GCD(Abs(a.n), a.d)
         IN  NormNum(a.n \div h, a.d \div h, a.e)

Dec(c, e) == Norm(c, 1, e)
Whole(i) == Norm(i, 1, 0)

Neg(a) == [a EXCEPT !.n = -a.n]

Mul(a, b) ==
    IF a.n = 0 \/ b.n = 0 THEN Whole(0)
    ELSE LET g1 == GCD(Abs(a.n), b.d)
             g2 == GCD(Abs(b.n), a.d)
         IN  Norm((a.n \div g1) * (b.n \div g2), (a.d \div g2) * (b.d \div g1), a.e + b.e)

Inv(a) == Norm(IF a.n < 0 THEN -a.d ELSE a.d, Abs(a.n), -a.e)

Div(a, b) == Mul(a, Inv(b))

Add(a, b) ==
    IF a.n = 0 THEN b
    ELSE IF b.n = 0 THEN a
    ELSE LET m == IF a.e < b.e THEN a.e ELSE b.e
             g == GCD(a.d, b.d)
             an == a.n * Pow10(a.e - m) * (b.d \div g)
             bn == b.n * Pow10(b.e - m) * (a.d \div g)
         IN  Norm(an + bn, (a.d \div g) * b.d, m)

Sub(a, b) == Add(a, Neg(b))

Less(a, b) == Sub(a, b).n < 0

Leq(a, b) == Sub(a, b).n <= 0

AbsNum(a) == [a EXCEPT !.n = Abs(a.n)]

IsWhole(a) == a.d = 1 /\ a.e >= 0

RECURSIVE PowNat(_, _)
PowNat(a, k) == IF k = 0 THEN Whole(1) ELSE Mul(a, PowNat(a, k - 1))

\* floor and remainder of n * 10^k / d, by long division: [q, r]
RECURSIVE DivScaled(_, _, _)
DivScaled(n, d, k) ==
    IF k = 0 THEN [q |-> n \div d, r |-> n % d]
    ELSE LET p == DivScaled(n, d, k - 1)
         IN  [q |-> p.q * 10 + (p.r * 10) \div d, r |-> (p.r * 10) % d]

\* round(a, places) and round(a): half to even, to `places` fractional digits
RoundHalfEven(a, places) ==
    LET k == a.e + places
        j == -k
    IN  IF a.n = 0 \/ (a.d = 1 /\ k >= 0) THEN a
        ELSE IF k < 0 /\ (j >= 10 \/ (Abs(a.n) \div Pow10(j - 1)) < 5 * a.d) THEN Whole(0)
        ELSE LET D == IF k >= 0 THEN a.d ELSE a.d * Pow10(j)
                 p == DivScaled(a.n, D, IF k >= 0 THEN k ELSE 0)
                 up == p.r > D - p.r \/ (p.r = D - p.r /\ p.q % 2 # 0)
             IN  Norm(IF up THEN p.q + 1 ELSE p.q, 1, -places)

(***************************************************************************)
(* Characters and strings.  A string is a sequence of characters, each a    *)
(* one-element TLA+ string; the non-ASCII characters of the program are    *)
(* written as the ASCII tokens below ("^3" is the one character            *)
(* SUPERSCRIPT THREE, "*" is DOT OPERATOR, "deg" is DEGREE SIGN, "mu" is    *)
(* MICRO SIGN, "_2" is SUBSCRIPT TWO).                                     *)
(***************************************************************************)
SUP_0 == "^0"
SUP_1 == "^1"
SUP_2 == "^2"
SUP_3 == "^3"
SUP_4 == "^4"
SUP_5 == "^5"
SUP_6 == "^6"
SUP_7 == "^7"
SUP_8 == "^8"
SUP_9 == "^9"
SUP_DECIMAL == "^."
SUP_MINUS == "^-"
MULTIPLIER == "*"
DEGREE == "deg"

SUPER_SCRIPT_MAPPING ==
    (SUP_0 :> "0") @@ (SUP_1 :> "1") @@ (SUP_2 :> "2") @@ (SUP_3 :> "3") @@
    (SUP_4 :> "4") @@ (SUP_5 :> "5") @@ (SUP_6 :> "6") @@ (SUP_7 :> "7") @@
    (SUP_8 :> "8") @@ (SUP_9 :> "9") @@ (SUP_MINUS :> "-") @@ (SUP_DECIMAL :> ".")

SUPER_SCRIPT_MAPPING_REVERSE ==
    [c \in {SUPER_SCRIPT_MAPPING[k] : k \in DOMAIN SUPER_SCRIPT_MAPPING} |->
        CHOOSE k \in DOMAIN SUPER_SCRIPT_MAPPING : SUPER_SCRIPT_MAPPING[k] = c]

None == <<>>
Some(v) == <<v>>

\* The result of a call: the exception it raised ("": none), the value it
\* returned, and the assignments it made to attributes of objects of the catalog,
\* in order.
Ok(v) == [exc |-> "", val |-> v, writes |-> <<>>]
Raise(e) == [exc |-> e, val |-> <<>>, writes |-> <<>>]

\* the result r of a call when it raised, otherwise K of the value it returned,
\* after the assignments of r
Then(r, K(_)) == IF r.exc # "" THEN r ELSE [K(r.val) EXCEPT !.writes = r.writes \o @]

Min(S) == CHOOSE i \in S : \A j \in S : i <= j

StartsWith(s, p) == Len(p) <= Len(s) /\ SubSeq(s, 1, Len(p)) = p

\* str.find: the index of the first occurrence of sub in s, 0 when there is none
Find(s, sub) ==
    LET hits == {i \in 1..(Len(s) - Len(sub) + 1) : SubSeq(s, i, i + Len(sub) - 1) = sub}
    IN  IF hits = {} THEN 0 ELSE Min(hits)

Contains(s, sub) == Find(s, sub) # 0

\* str.replace(old, new, 1)
ReplaceFirst(s, old, new) ==
    LET i == Find(s, old)
    IN  IF i = 0 THEN s
        ELSE SubSeq(s, 1, i - 1) \o new \o SubSeq(s, i + Len(old), Len(s))

\* str.replace(old, new), old not empty
RECURSIVE Replace(_, _, _)
Replace(s, old, new) ==
    LET i == Find(s, old)
    IN  IF i = 0 THEN s
        ELSE SubSeq(s, 1, i - 1) \o new \o Replace(SubSeq(s, i + Len(old), Len(s)), old, new)

\* str.strip, the only whitespace of the modelled strings being the space
RECURSIVE Strip(_)
Strip(s) ==
    IF s = <<>> THEN s
    ELSE IF Head(s) = " " THEN Strip(Tail(s))
    ELSE IF s[Len(s)] = " " THEN Strip(SubSeq(s, 1, Len(s) - 1))
    ELSE s

\* str.split(sep) for a one-character separator
RECURSIVE Split(_, _)
Split(s, sep) ==
    LET i == Find(s, <<sep>>)
    IN  IF i = 0 THEN <<s>>
        ELSE <<SubSeq(s, 1, i - 1)>> \o Split(SubSeq(s, i + 1, Len(s)), sep)

IsDigit(c) == c \in {"0", "1", "2", "3", "4", "5", "6", "7", "8", "9"}

DigitValue(c) ==
    CASE c = "0" -> 0 [] c = "1" -> 1 [] c = "2" -> 2 [] c = "3" -> 3 [] c = "4" -> 4
      [] c = "5" -> 5 [] c = "6" -> 6 [] c = "7" -> 7 [] c = "8" -> 8 [] c = "9" -> 9

RECURSIVE DigitsValue(_)
DigitsValue(s) ==
    IF s = <<>> THEN 0 ELSE 10 * DigitsValue(SubSeq(s, 1, Len(s) - 1)) + DigitValue(s[Len(s)])

\* decimal.Decimal(<exponent string>): the strings the parser builds hold digits,
\* '-' and '.'; exponents are integers here, and a string with a decimal point
\* (a fractional exponent) is outside the modelled inputs.
Decimal(s) ==
    LET body == IF s # <<>> /\ Head(s) = "-" THEN Tail(s) ELSE s
    IN  IF body # <<>> /\ \A i \in 1..Len(body) : IsDigit(body[i])
        THEN Ok(IF s[1] = "-" THEN -DigitsValue(body) ELSE DigitsValue(body))
        ELSE Raise("InvalidOperation")

\* str(<integer exponent>)
RECURSIVE NatStr(_)
NatStr(i) ==
    LET d == <<"0", "1", "2", "3", "4", "5", "6", "7", "8", "9">>[(i % 10) + 1]
    IN  IF i < 10 THEN <<d>> ELSE NatStr(i \div 10) \o <<d>>

IntStr(i) == IF i < 0 THEN <<"-">> \o NatStr(-i) ELSE NatStr(i)

(***************************************************************************)
(* The program's state: the three catalog tables (module globals), filled  *)
(* by the module's registration statements when it is imported, and what   *)
(* the caller of convert and of class Unit has seen.                       *)
(***************************************************************************)
VARIABLES
    _BASE_UNITS,            \* dict: symbol -> Unit
    _NAMED_DERIVED_UNITS,   \* dict: symbol -> Unit
    _UNITS,                 \* dict: symbol -> Unit
    loaded,                 \* number of registration statements executed
    import_error,           \* the exception that aborted the import, or ""
    calls,                  \* the caller's convert calls: <<[value, from_unit, to_unit, out]>>
    made,                   \* the caller's uses of class Unit: <<[op, ..., out]>>
    passed,                 \* python_utils/time.py: the arguments of the two generators
    sync,                   \* the frame of the timeout_generator(*args)
    aio                     \* the frame of the aio_timeout_generator(*args)

\* the state of python_utils/time.py
Timers == <<passed, sync, aio>>

vars == <<_BASE_UNITS, _NAMED_DERIVED_UNITS, _UNITS, loaded, import_error, calls, made,
          passed, sync, aio>>

\* the interpreter's recursion limit, in modelled calls
RecursionLimit == 10

(***************************************************************************)
(* class Unit.  A Unit object is the record of its four attributes and of   *)
(* its place: `home` is <<>> for an object no catalog table reaches, and     *)
(* <<table, key, path>> for the object reached from the entry `key` of     *)
(* `table` by the indices `path` into _b_units.  A reference to an object  *)
(* is the record with its home, so an object of the catalog is told from a *)
(* copy of it.  Every operation below that can raise returns Ok(value) or  *)
(* Raise(class).                                                           *)
(***************************************************************************)
UnitNode(symbol, b_units, factor, exponent) ==
    [symbol |-> symbol, factor |-> factor, exponent |-> exponent, b_units |-> b_units,
     home |-> <<>>]

\* the assignment obj._exponent = exponent: the object after it, and the write
\* when the object is one of the catalog
SetExponent(obj, exponent) ==
    [exc |-> "", val |-> [obj EXCEPT !.exponent = exponent],
     writes |-> IF obj.home = <<>> THEN <<>>
                ELSE <<[home |-> obj.home, exponent |-> exponent]>>]

\* the local dict `mapping` of _parse_unit_prefix, in insertion order
mapping == <<
    [key |-> <<"Y">>, factor |-> [n |-> 1, d |-> 1, e |-> 24]],
    [key |-> <<"Z">>, factor |-> [n |-> 1, d |-> 1, e |-> 21]],
    [key |-> <<"E">>, factor |-> [n |-> 1, d |-> 1, e |-> 18]],
    [key |-> <<"P">>, factor |-> [n |-> 1, d |-> 1, e |-> 15]],
    [key |-> <<"T">>, factor |-> [n |-> 1, d |-> 1, e |-> 12]],
    [key |-> <<"G">>, factor |-> [n |-> 1, d |-> 1, e |-> 9]],
    [key |-> <<"M">>, factor |-> [n |-> 1, d |-> 1, e |-> 6]],
    [key |-> <<"k">>, factor |-> [n |-> 1, d |-> 1, e |-> 3]],
    [key |-> <<"h">>, factor |-> [n |-> 1, d |-> 1, e |-> 2]],
    [key |-> <<"d", "a">>, factor |-> [n |-> 1, d |-> 1, e |-> 1]],
    [key |-> <<"d">>, factor |-> [n |-> 1, d |-> 1, e |-> -1]],
    [key |-> <<"c">>, factor |-> [n |-> 1, d |-> 1, e |-> -2]],
    [key |-> <<"m">>, factor |-> [n |-> 1, d |-> 1, e |-> -3]],
    [key |-> <<"mu">>, factor |-> [n |-> 1, d |-> 1, e |-> -6]],
    [key |-> <<"n">>, factor |-> [n |-> 1, d |-> 1, e |-> -9]],
    [key |-> <<"p">>, factor |-> [n |-> 1, d |-> 1, e |-> -12]],
    [key |-> <<"f">>, factor |-> [n |-> 1, d |-> 1, e |-> -15]],
    [key |-> <<"a">>, factor |-> [n |-> 1, d |-> 1, e |-> -18]],
    [key |-> <<"z">>, factor |-> [n |-> 1, d |-> 1, e |-> -21]],
    [key |-> <<"y">>, factor |-> [n |-> 1, d |-> 1, e |-> -24]] >>

IsSuperScript(c) == c \in DOMAIN SUPER_SCRIPT_MAPPING

\* the characters of `unit` that are superscripts, mapped to ASCII
ExponentChars(unit) ==
    LET sel == SelectSeq(unit, IsSuperScript)
    IN  [i \in 1..Len(sel) |-> SUPER_SCRIPT_MAPPING[sel[i]]]

NotSuperScript(c) == ~IsSuperScript(c)

\* the first loop of _process_unit's compound path: split at each '/' that is
\* outside parentheses
RECURSIVE SlashSplit(_, _, _, _, _)
SlashSplit(unit, i, units, brace_open, item) ==
    IF i > Len(unit) THEN (IF item # <<>> THEN Append(units, item) ELSE units)
    ELSE LET char == unit[i]
         IN  IF char = "(" THEN SlashSplit(unit, i + 1, units, brace_open + 1, Append(item, char))
             ELSE IF char = ")" THEN SlashSplit(unit, i + 1, units, brace_open - 1, Append(item, char))
             ELSE IF char = "/" /\ brace_open = 0 THEN SlashSplit(unit, i + 1, Append(units, item), brace_open, <<>>)
             ELSE SlashSplit(unit, i + 1, units, brace_open, Append(item, char))

MARKER(marker) == <<"M", "A", "R", "K", "E", "R">> \o NatStr(marker)

SQRT_OPEN == <<"s", "q", "r", "t", "(">>

\* A call of one of the methods below, Call(<name>, <arguments>, depth), is made at
\* the given depth of the interpreter's call stack; it is defined after them.
RECURSIVE Call(_, _, _)
RECURSIVE CloneAll(_, _)
RECURSIVE ScanBraces(_, _, _, _)
RECURSIVE FoundUnits(_, _, _, _)
RECURSIVE ProcessItems(_, _, _, _, _)

\* the index in `mapping` of the first key that `unit` starts with, 0 if none
PrefixOf(unit) ==
    LET hits == {i \in 1..Len(mapping) : StartsWith(unit, mapping[i].key)}
    IN  IF hits = {} THEN 0 ELSE Min(hits)

\* Unit._parse_unit_prefix: Ok(None), Ok(Some(unit)) or an exception
_parse_unit_prefix(unit, depth) ==
    LET k == PrefixOf(unit)
        symbol == ReplaceFirst(unit, mapping[k].key, <<>>)
        built(base_unit) ==
            Then(Call("Unit", <<unit, <<base_unit>>, mapping[k].factor, 1>>, depth + 1),
                 LAMBDA u : Ok(Some(u)))
    IN  IF Len(unit) <= 1 \/ k = 0 THEN Ok(None)
        ELSE IF symbol \in DOMAIN _BASE_UNITS THEN built(_BASE_UNITS[symbol])
        ELSE IF symbol \in DOMAIN _NAMED_DERIVED_UNITS
             THEN built(_NAMED_DERIVED_UNITS[symbol])
        ELSE IF unit \in DOMAIN _UNITS
             THEN (IF symbol \in DOMAIN _UNITS THEN built(_UNITS[symbol])
                   ELSE Raise("KeyError"))
        ELSE Ok(None)

\* Unit.__init__
Unit(symbol, base_units, factor, exponent, depth) ==
    IF base_units = <<>> /\ symbol \notin DOMAIN _BASE_UNITS
    THEN Then(Call("_process_unit", <<symbol, TRUE>>, depth + 1),
              LAMBDA b_units : Ok(UnitNode(symbol, b_units, factor, exponent)))
    ELSE Ok(UnitNode(symbol, base_units, factor, exponent))

\* list(unit() for unit in units)
CloneAll(units, depth) ==
    IF units = <<>> THEN Ok(<<>>)
    ELSE Then(Call("__call__", <<Head(units), None, None>>, depth + 1),
              LAMBDA h : Then(CloneAll(Tail(units), depth), LAMBDA t : Ok(<<h>> \o t)))

\* Unit.__call__(factor=None, exponent=None)
__call__(self, factor, exponent, depth) ==
    Then(CloneAll(self.b_units, depth),
         LAMBDA kids :
             Call("Unit",
                  <<self.symbol, kids,
                    IF factor = None THEN self.factor ELSE Mul(factor[1], self.factor),
                    IF exponent = None THEN self.exponent ELSE exponent[1]>>,
                  depth + 1))

\* the compound-token rewrite at the head of _process_unit: the rewritten string,
\* or None when no rewrite applies
CompoundRewrite(unit) ==
    LET H2O == <<"H", "2", "O">>
        Hsub2O == <<"H", "_2", "O">>
        Aq == <<"A", "q">>
        Hg == <<"H", "g">>
        O2 == <<"O", "2">>
    IN  IF StartsWith(unit, O2) \/ StartsWith(unit, Aq) \/ StartsWith(unit, Hg) THEN None
        ELSE IF Contains(unit, H2O) THEN Some(Replace(unit, H2O, <<MULTIPLIER>> \o Aq))
        ELSE IF Contains(unit, Hsub2O) THEN Some(Replace(unit, Hsub2O, <<MULTIPLIER>> \o Aq))
        ELSE IF Contains(unit, Aq) /\ ~Contains(unit, <<MULTIPLIER>> \o Aq)
             THEN Some(Replace(unit, Aq, <<MULTIPLIER>> \o Aq))
        ELSE IF Contains(unit, Hg) /\ ~Contains(unit, <<MULTIPLIER>> \o Hg)
             THEN Some(Replace(unit, Hg, <<MULTIPLIER>> \o Hg))
        ELSE IF Contains(unit, O2) /\ ~Contains(unit, <<MULTIPLIER>> \o O2)
             THEN Some(Replace(unit, O2, <<MULTIPLIER>> \o O2))
        ELSE None

\* _process_unit, the branch for a string without MULTIPLIER and '/'
ProcessAtom(unit, first_pass, depth) ==
    LET digits == ExponentChars(unit)
        u == SelectSeq(unit, NotSuperScript)
        found(proto, exponent) ==
            Then(Call("__call__", <<proto, None, Some(exponent)>>, depth + 1),
                 LAMBDA found_unit : Ok(<<found_unit>>))
    IN  Then(Decimal(IF digits = <<>> THEN <<"1">> ELSE digits),
             LAMBDA exponent :
                 IF u \in DOMAIN _BASE_UNITS THEN found(_BASE_UNITS[u], exponent)
                 ELSE IF u \in DOMAIN _NAMED_DERIVED_UNITS
                      THEN found(_NAMED_DERIVED_UNITS[u], exponent)
                 ELSE IF u \in DOMAIN _UNITS THEN found(_UNITS[u], exponent)
                 ELSE IF first_pass
                      THEN Then(Call("_parse_unit_prefix", <<u>>, depth + 1),
                                LAMBDA unt :
                                    IF unt = None THEN Ok(<<>>)
                                    ELSE Then(SetExponent(unt[1], exponent),
                                              LAMBDA set : Ok(<<set>>)))
                 ELSE Raise("ValueError"))

\* _process_unit, the loop over the characters of item1: st is
\* [brace_open, item, marker, cfs]
ScanBraces(item1, i, st, depth) ==
    IF i > Len(item1) THEN Ok(st)
    ELSE IF item1[i] = "("
         THEN ScanBraces(item1, i + 1,
                 [st EXCEPT !.brace_open = @ + 1, !.item = Append(@, item1[i])], depth)
    ELSE IF item1[i] = ")" /\ st.brace_open - 1 = 0
         THEN IF ~Contains(item1, <<"s", "q", "r", "t">> \o st.item \o <<")">>)
              THEN Then(Call("_process_unit",
                             <<SubSeq(st.item, 2, Len(st.item)), TRUE>>, depth + 1),
                        LAMBDA sub :
                            ScanBraces(item1, i + 1,
                                [st EXCEPT !.brace_open = 0, !.item = <<>>,
                                           !.marker = @ + 1,
                                           !.cfs = (MARKER(st.marker) :> sub) @@ @],
                                depth))
              ELSE ScanBraces(item1, i + 1,
                      [st EXCEPT !.brace_open = 0, !.item = <<>>], depth)
    ELSE IF item1[i] = ")"
         THEN ScanBraces(item1, i + 1,
                 [st EXCEPT !.brace_open = @ - 1, !.item = Append(@, item1[i])], depth)
    ELSE ScanBraces(item1, i + 1, [st EXCEPT !.item = Append(@, item1[i])], depth)

\* _process_unit, the loop over item1.split(MULTIPLIER): the found units so far
\* are `found_units`, the pieces left are `uts`
FoundUnits(uts, cfs, found_units, depth) ==
    IF uts = <<>> THEN Ok(found_units)
    ELSE IF Head(uts) \in DOMAIN cfs
         THEN FoundUnits(Tail(uts), cfs, found_units \o cfs[Head(uts)], depth)
    ELSE IF StartsWith(Head(uts), SQRT_OPEN)
         THEN Then(Call("_process_unit",
                        <<SubSeq(Head(uts), 6, Len(Head(uts)) - 1), TRUE>>, depth + 1),
                   LAMBDA f_units :
              Then(Call("Unit", <<<<"s", "q", "r", "t">>, f_units, Whole(1), 1>>, depth + 1),
                   LAMBDA root :
              Then(Call("_process_unit",
                        <<SubSeq(Head(uts), 6, Len(Head(uts)) - 1), TRUE>>, depth + 1),
                   LAMBDA again :
                       FoundUnits(Tail(uts), cfs, (found_units \o <<root>>) \o again,
                                  depth))))
    ELSE Then(Call("_process_unit", <<Head(uts), TRUE>>, depth + 1),
              LAMBDA more : FoundUnits(Tail(uts), cfs, found_units \o more, depth))

\* _process_unit, the loop `for i, item1 in enumerate(units)`: acc.st carries
\* brace_open, item, marker and cfs from one item to the next
ProcessItems(unit, units, i, acc, depth) ==
    IF i > Len(units) THEN Ok(acc.res)
    ELSE Then(ScanBraces(units[i], 1, acc.st, depth),
              LAMBDA st :
         Then(FoundUnits(Split(units[i], MULTIPLIER), st.cfs, <<>>, depth),
              LAMBDA found_units :
         Then(Call("Unit", <<unit, found_units, Whole(1), 1>>, depth + 1),
              LAMBDA made_unit :
         Then(IF i > 1 THEN SetExponent(made_unit, -made_unit.exponent) ELSE Ok(made_unit),
              LAMBDA base_unit :
                  ProcessItems(unit, units, i + 1,
                      [st |-> st, res |-> Append(acc.res, base_unit)], depth)))))

\* Unit._process_unit(unit, first_pass=True)
_process_unit(unit0, first_pass, depth) ==
    LET unit == Replace(Strip(unit0), <<" ">>, <<MULTIPLIER>>)
        rewritten == CompoundRewrite(unit)
    IN  IF rewritten # None THEN Call("_process_unit", <<rewritten[1], TRUE>>, depth + 1)
        ELSE IF ~Contains(unit, <<MULTIPLIER>>) /\ ~Contains(unit, <<"/">>)
             THEN ProcessAtom(unit, first_pass, depth)
        ELSE ProcessItems(unit, SlashSplit(unit, 1, <<>>, 0, <<>>), 1,
                [st |-> [brace_open |-> 0, item |-> <<>>, marker |-> 1, cfs |-> <<>>],
                 res |-> <<>>],
                depth)

\* math.pow(factor, exponent) for an integer exponent
Pow(a, k) == IF k >= 0 THEN PowNat(a, k) ELSE Inv(PowNat(a, -k))

\* math.sqrt of a number that has an exact root
Sqrt(a) ==
    LET half == IF a.e % 2 = 0 THEN a ELSE [a EXCEPT !.n = @ * 10, !.e = @ - 1]
        rn == CHOOSE r \in 0..half.n : r * r = half.n
        rd == CHOOSE r \in 1..half.d : r * r = half.d
    IN  Norm(rn, rd, half.e \div 2)

\* Unit.factor
RECURSIVE factor(_)
RECURSIVE FactorProduct(_)
FactorProduct(units) ==
    IF units = <<>> THEN Whole(1) ELSE Mul(factor(Head(units)), FactorProduct(Tail(units)))

\* factor without the factors of the base units
factor_own(self) == Pow(self.factor, self.exponent)

\* factor without the exponent
factor_no_exponent(self) == Mul(FactorProduct(self.b_units), self.factor)

factor(self) ==
    LET powered == Pow(Mul(FactorProduct(self.b_units), self.factor), self.exponent)
    IN  IF self.symbol = <<"s", "q", "r", "t">> THEN Sqrt(powered) ELSE powered

\* math.pow(0, exponent) for a negative exponent and math.sqrt of a negative
\* number raise ValueError: whether reading self.factor does
RECURSIVE MathDomainError(_)
MathDomainError(self) ==
    \/ \E j \in 1..Len(self.b_units) : MathDomainError(self.b_units[j])
    \/ /\ Mul(FactorProduct(self.b_units), self.factor).n = 0
       /\ self.exponent < 0
    \/ /\ self.symbol = <<"s", "q", "r", "t">>
       /\ Pow(Mul(FactorProduct(self.b_units), self.factor), self.exponent).n < 0

\* a read of the property Unit.factor: the number, or the exception
ReadFactor(self) ==
    IF MathDomainError(self) THEN Raise("ValueError") ELSE Ok(factor(self))

\* Unit.__eq__: equal symbols
UnitEq(self, other) == other.symbol = self.symbol

\* output.index(unit) for a unit that is in output
IndexOf(output, unit) == Min({j \in 1..Len(output) : UnitEq(output[j], unit)})

IsIn(unit, output) == \E j \in 1..Len(output) : UnitEq(output[j], unit)

\* __iadd__ that leaves the exponent as it is
__iadd___kept(self, other) == SetExponent(self, self.exponent)

\* Unit.__iadd__
__iadd__(self, other) == SetExponent(self, self.exponent + other.exponent)

RECURSIVE IterBasesAll(_, _)
RECURSIVE NewBases(_, _, _)
RECURSIVE MergeOutput(_, _, _)

\* iter_bases, the function nested in Unit.__iter__
iter_bases(in_base, depth) ==
    Then(Call("__iter__", <<in_base>>, depth + 1),
         LAMBDA bases : IF bases = <<>> THEN Ok(<<in_base>>) ELSE IterBasesAll(bases, depth))

\* the loop `for bse in bases: out_bases.extend(iter_bases(bse))`
IterBasesAll(bases, depth) ==
    IF bases = <<>> THEN Ok(<<>>)
    ELSE Then(Call("iter_bases", <<Head(bases)>>, depth + 1),
              LAMBDA h : Then(IterBasesAll(Tail(bases), depth), LAMBDA t : Ok(h \o t)))

\* NewBases without the copy `base = base()`: the exponent is assigned to the unit
\* of self._b_units itself
NewBases_shared(b_units, exponent, depth) ==
    IF b_units = <<>> THEN Ok(<<>>)
    ELSE Then(SetExponent(Head(b_units), Head(b_units).exponent * exponent),
              LAMBDA base :
         Then(Call("iter_bases", <<base>>, depth + 1),
              LAMBDA h :
         Then(NewBases(Tail(b_units), exponent, depth), LAMBDA t : Ok(h \o t))))

\* Unit.__iter__, the loop `for base in self._b_units`
NewBases(b_units, exponent, depth) ==
    IF b_units = <<>> THEN Ok(<<>>)
    ELSE Then(Call("__call__", <<Head(b_units), None, None>>, depth + 1),
              LAMBDA copy :
         Then(SetExponent(copy, copy.exponent * exponent),
              LAMBDA base :
         Then(Call("iter_bases", <<base>>, depth + 1),
              LAMBDA h :
         Then(NewBases(Tail(b_units), exponent, depth), LAMBDA t : Ok(h \o t)))))

\* Unit.__iter__, the loop `for unit in new_bases`
MergeOutput(new_bases, output, depth) ==
    IF new_bases = <<>> THEN Ok(output)
    ELSE IF IsIn(Head(new_bases), output)
         THEN Then(__iadd__(output[IndexOf(output, Head(new_bases))], Head(new_bases)),
                   LAMBDA added :
                       MergeOutput(Tail(new_bases),
                           [output EXCEPT ![IndexOf(output, Head(new_bases))] = added],
                           depth))
    ELSE Then(Call("__call__", <<Head(new_bases), None, None>>, depth + 1),
              LAMBDA copy : MergeOutput(Tail(new_bases), Append(output, copy), depth))

\* Unit.__iter__: the list the returned iterator yields
__iter__(self, depth) ==
    Then(NewBases(self.b_units, self.exponent, depth),
         LAMBDA new_bases : MergeOutput(new_bases, <<>>, depth))

\* a call of a method of Unit at depth `depth` of the call stack: beyond the
\* recursion limit the interpreter raises RecursionError instead of running it
Call(method, args, depth) ==
    IF depth > RecursionLimit THEN Raise("RecursionError")
    ELSE CASE method = "Unit" -> Unit(args[1], args[2], args[3], args[4], depth)
           [] method = "__call__" -> __call__(args[1], args[2], args[3], depth)
           [] method = "_process_unit" -> _process_unit(args[1], args[2], depth)
           [] method = "_parse_unit_prefix" -> _parse_unit_prefix(args[1], depth)
           [] method = "__iter__" -> __iter__(args[1], depth)
           [] method = "iter_bases" -> iter_bases(args[1], depth)

\* the trailing superscripts of a symbol, read from its end: [curr, repl]
RECURSIVE TrailingExponent(_, _)
TrailingExponent(sym, i) ==
    IF i < 1 \/ ~IsSuperScript(sym[i]) THEN [curr |-> <<>>, repl |-> <<>>]
    ELSE LET rest == TrailingExponent(sym, i - 1)
         IN  [curr |-> <<SUPER_SCRIPT_MAPPING[sym[i]]>> \o rest.curr,
              repl |-> <<sym[i]>> \o rest.repl]

\* Unit.symbol
symbol(self) ==
    LET t == TrailingExponent(self.symbol, Len(self.symbol))
        curr_exponent == Decimal(IF t.curr = <<>> THEN <<"1">> ELSE t.curr)
        digits == IntStr(self.exponent)
        exponent == IF self.exponent # 1
                    THEN [j \in 1..Len(digits) |-> SUPER_SCRIPT_MAPPING_REVERSE[digits[j]]]
                    ELSE <<>>
    IN  IF curr_exponent.exc # "" THEN curr_exponent
        ELSE IF curr_exponent.val # self.exponent /\ t.repl = <<>>
             THEN Ok(self.symbol \o exponent)
        ELSE Ok(self.symbol)

\* Unit.__bool__
__bool__(self) == self.exponent # 0

\* Unit.__str__
__str__(self) == IF self.exponent = 0 THEN Ok(<<>>) ELSE symbol(self)

\* isinstance(other, Unit): a scalar is [kind, num, places, frac]
IsUnit(other) == "symbol" \in DOMAIN other

\* int(val) for a decimal.Decimal: the integer towards zero
Trunc(a) ==
    IF a.e <= -10 THEN Whole(0)
    ELSE LET num == Abs(a.n) * (IF a.e >= 0 THEN Pow10(a.e) ELSE 1)
             den == a.d * (IF a.e < 0 THEN Pow10(-a.e) ELSE 1)
         IN  Whole(IF a.n < 0 THEN -(num \div den) ELSE num \div den)

\* Unit.__rmul__, which `other * unit` calls for a scalar: the product of an int
\* or a Decimal with the Decimal factor is a Decimal, that of a float with it is
\* unsupported
__rmul__(self, other) ==
    IF IsUnit(other)
    THEN Ok([kind |-> "Decimal", num |-> Mul(factor(self), factor(other))])
    ELSE IF other.kind = "float" THEN Raise("TypeError")
    ELSE Ok([kind |-> "Decimal", num |-> Mul(other.num, factor(self))])

\* Unit.__mul__: `unit * other`
__mul__(self, other, depth) ==
    IF IsUnit(other)
    THEN Then(symbol(self),
              LAMBDA left :
         Then(symbol(other),
              LAMBDA right :
                  Call("Unit", <<(left \o <<MULTIPLIER>>) \o right, <<>>, Whole(1), 1>>,
                       depth + 1)))
    ELSE IF other.kind = "int"
         THEN Ok([kind |-> "int", num |-> Trunc(Mul(other.num, factor(self)))])
    ELSE Ok([kind |-> other.kind, num |-> Mul(other.num, factor(self))])

\* Unit.__div__, which is Unit.__truediv__: `unit / other`; the quotient of two
\* decimal.Decimal raises when the divisor is zero
__div__(self, other) ==
    IF ~IsUnit(other) THEN Raise("TypeError")
    ELSE IF factor(other).n = 0
         THEN Raise(IF factor(self).n = 0 THEN "InvalidOperation" ELSE "DivisionByZero")
    ELSE Ok([kind |-> "float", num |-> Div(factor(self), factor(other))])

\* Unit.__idiv__, which is Unit.__itruediv__: `unit /= other`
__idiv__(self, other, depth) ==
    IF ~IsUnit(other) THEN Raise("TypeError")
    ELSE Then(symbol(self),
              LAMBDA left :
         Then(symbol(other),
              LAMBDA right :
                  Call("Unit", <<(left \o <<"/">>) \o right, <<>>, Whole(1), 1>>,
                       depth + 1)))

(***************************************************************************)
(* The conversion engine.                                                  *)
(***************************************************************************)
\* the modelled characters in code point order, for sorted()
CodePointOrder == <<
    " ", "(", ")", "/", "0", "1", "2", "3", "4", "5", "6", "7", "8", "9",
    "A", "B", "C", "D", "E", "F", "G", "H", "I", "J", "K", "L", "M", "N", "O", "P",
    "Q", "R", "S", "T", "U", "V", "W", "X", "Y", "Z", "_",
    "a", "b", "c", "d", "e", "f", "g", "h", "i", "j", "k", "l", "m", "n", "o", "p",
    "q", "r", "s", "t", "u", "v", "w", "x", "y", "z",
    DEGREE, SUP_2, SUP_3, "mu", SUP_DECIMAL, SUP_1, SUP_0, SUP_4, SUP_5, SUP_6,
    SUP_7, SUP_8, SUP_9, SUP_MINUS, "_2", MULTIPLIER >>

ord(c) == CHOOSE j \in 1..Len(CodePointOrder) : CodePointOrder[j] = c

\* str.__lt__
RECURSIVE StrLess(_, _)
StrLess(a, b) ==
    IF b = <<>> THEN FALSE
    ELSE IF a = <<>> THEN TRUE
    ELSE IF Head(a) = Head(b) THEN StrLess(Tail(a), Tail(b))
    ELSE ord(Head(a)) < ord(Head(b))

\* sorted(strs)
RECURSIVE sorted(_)
sorted(strs) ==
    IF strs = <<>> THEN <<>>
    ELSE LET least == CHOOSE j \in 1..Len(strs) :
                          \A k \in 1..Len(strs) : ~StrLess(strs[k], strs[j])
         IN  <<strs[least]>> \o
             sorted([k \in 1..(Len(strs) - 1) |-> IF k < least THEN strs[k] ELSE strs[k + 1]])

\* sep.join(strs)
RECURSIVE join(_, _)
join(sep, strs) ==
    IF strs = <<>> THEN <<>>
    ELSE IF Len(strs) = 1 THEN strs[1]
    ELSE strs[1] \o <<sep>> \o join(sep, Tail(strs))

RECURSIVE MergeBaseUnits(_, _)
RECURSIVE CombineLoop(_, _, _)
RECURSIVE StrUnits(_)

\* combine_units, the loop `for b_unit in base_units`
MergeBaseUnits(base_units, out_units) ==
    IF base_units = <<>> THEN Ok(out_units)
    ELSE IF IsIn(Head(base_units), out_units)
         THEN Then(__iadd__(out_units[IndexOf(out_units, Head(base_units))], Head(base_units)),
                   LAMBDA added :
                       MergeBaseUnits(Tail(base_units),
                           [out_units EXCEPT ![IndexOf(out_units, Head(base_units))] = added]))
    ELSE MergeBaseUnits(Tail(base_units), Append(out_units, Head(base_units)))

\* combine_units, the loop `for unit in in_units`
CombineLoop(units, out_units, depth) ==
    IF units = <<>> THEN Ok(out_units)
    ELSE Then(Call("__iter__", <<Head(units)>>, depth + 1),
              LAMBDA base_units :
         Then(MergeBaseUnits(base_units, out_units),
              LAMBDA merged : CombineLoop(Tail(units), merged, depth)))

\* combine_units, the loop that renders the units whose exponent is not 0
StrUnits(out_units) ==
    IF out_units = <<>> THEN Ok(<<>>)
    ELSE IF ~__bool__(Head(out_units)) THEN StrUnits(Tail(out_units))
    ELSE Then(__str__(Head(out_units)),
              LAMBDA h : Then(StrUnits(Tail(out_units)), LAMBDA t : Ok(<<h>> \o t)))

\* combine_units, the function nested in _get_conversion_factor
combine_units(in_units, depth) ==
    Then(Call("__iter__", <<in_units>>, depth + 1),
         LAMBDA units :
    Then(CombineLoop(units, <<>>, depth),
         LAMBDA out_units :
    Then(StrUnits(out_units),
         LAMBDA str_units : Ok(join(MULTIPLIER, sorted(str_units))))))

\* _get_conversion_factor: Ok(<<from factor, to factor>>) or an exception
_get_conversion_factor(from_unit, to_unit, depth) ==
    Then(Call("Unit", <<from_unit, <<>>, Whole(1), 1>>, depth + 1),
         LAMBDA from_units :
    Then(Call("Unit", <<to_unit, <<>>, Whole(1), 1>>, depth + 1),
         LAMBDA to_units :
    Then(combine_units(from_units, depth + 1),
         LAMBDA f_unit :
    Then(combine_units(to_units, depth + 1),
         LAMBDA t_unit :
             IF f_unit # t_unit THEN Raise("ValueError")
             ELSE Ok(<<factor(from_units), factor(to_units)>>)))))

DEG_K == <<DEGREE, "K">>
DEG_R == <<DEGREE, "R">>
DEG_C == <<DEGREE, "C">>
DEG_F == <<DEGREE, "F">>

\* _temperature_conversion; `1.8 * temp_si` multiplies a float by a Decimal,
\* which Python refuses with a TypeError
_temperature_conversion(temp, from_unit, to_unit) ==
    Then(IF from_unit = DEG_K THEN Ok(temp)
         ELSE IF from_unit = DEG_R THEN Ok(Div(temp, Dec(18, -1)))
         ELSE IF from_unit = DEG_C THEN Ok(Add(temp, Dec(27315, -2)))
         ELSE IF from_unit = DEG_F THEN Ok(Div(Add(temp, Dec(45967, -2)), Dec(18, -1)))
         ELSE Raise("TypeError"),
         LAMBDA temp_si :
             IF to_unit = DEG_K THEN Ok(temp_si)
             ELSE IF to_unit = DEG_R THEN Raise("TypeError")
             ELSE IF to_unit = DEG_C THEN Ok(Sub(temp_si, Dec(27315, -2)))
             ELSE IF to_unit = DEG_F
                  THEN Ok(Sub(Mul(Dec(18, -1), temp_si), Dec(45967, -2)))
             ELSE Raise("TypeError"))

(***************************************************************************)
(* A value passed to convert is [kind, num, places, frac]: kind is "int",   *)
(* "float" or "Decimal", num its number; for a Decimal, frac is the number *)
(* of its fractional digits and places the number of characters after the *)
(* '.' of str(value) (0: no '.').  A returned value is [kind, num].        *)
(***************************************************************************)
IntValue(i) == [kind |-> "int", num |-> Whole(i), places |-> 0, frac |-> 0]
FloatValue(c, e) == [kind |-> "float", num |-> Dec(c, e), places |-> 0, frac |-> 0]

\* len(str(value).split('.')[1]) when '.' is in str(value), else 0, for the
\* decimal.Decimal of coefficient c >= 0 and exponent exp: str writes it in plain
\* notation when exp <= 0 and more than -6 digits are left of the point, and
\* otherwise as d.ddE+x (dE+x for one digit)
StrPlaces(c, exp) ==
    LET ndigits == Len(NatStr(c))
        leftdigits == exp + ndigits
    IN  IF exp <= 0 /\ leftdigits > -6 THEN -exp
        ELSE IF ndigits = 1 THEN 0
        ELSE (ndigits - 1) + 2 + Len(NatStr(Abs(leftdigits - 1)))

\* the decimal.Decimal of coefficient c and frac fractional digits
DecimalValue(c, frac) ==
    [kind |-> "Decimal", num |-> Dec(c, -frac), places |-> StrPlaces(c, -frac), frac |-> frac]

\* Shape without the rounding of a plain integer's result
Shape_unrounded(value, val) ==
    IF value.kind = "float" THEN [kind |-> "float", num |-> val]
    ELSE IF value.kind = "Decimal"
         THEN IF value.places > 0
              THEN [kind |-> "float", num |-> RoundHalfEven(val, value.places)]
              ELSE [kind |-> "int", num |-> RoundHalfEven(val, 0)]
    ELSE [kind |-> "int", num |-> val]

\* Shape with the result of a float rounded as that of a plain integer is
Shape_rounds_floats(value, val) ==
    IF value.kind = "Decimal" /\ value.places > 0
    THEN [kind |-> "float", num |-> RoundHalfEven(val, value.places)]
    ELSE [kind |-> IF value.kind = "float" THEN "float" ELSE "int",
          num |-> RoundHalfEven(val, 0)]

\* convert, from `if isinstance(value, float)` to the return
Shape(value, val) ==
    IF value.kind = "float" THEN [kind |-> "float", num |-> val]
    ELSE IF value.kind = "Decimal"
         THEN IF value.places > 0
              THEN [kind |-> "float", num |-> RoundHalfEven(val, value.places)]
              ELSE [kind |-> "int", num |-> RoundHalfEven(val, 0)]
    ELSE [kind |-> "int", num |-> RoundHalfEven(val, 0)]

NoReturn == [kind |-> "none", num |-> Whole(0)]

\* convert(value, from_unit, to_unit) for str units: [exc, ret, val, path,
\* writes], val being the local `val` before it is shaped and writes the
\* assignments the call made to objects of the catalog
Returned(value, val, path) ==
    [exc |-> "", ret |-> Shape(value, val), val |-> val, path |-> path, writes |-> <<>>]

Raised(exc, path) ==
    [exc |-> exc, ret |-> NoReturn, val |-> Whole(0), path |-> path, writes |-> <<>>]

\* GeneralPath with the two factors multiplied instead of divided
GeneralPath_product(value, cf) ==
    IF cf.exc # "" THEN [Raised(cf.exc, "general") EXCEPT !.writes = cf.writes]
    ELSE [Returned(value, Mul(value.num, Mul(cf.val[1], cf.val[2])), "general")
              EXCEPT !.writes = cf.writes]

\* convert, the handler `except TypeError` of the temperature conversion
GeneralPath(value, cf) ==
    IF cf.exc # "" THEN [Raised(cf.exc, "general") EXCEPT !.writes = cf.writes]
    ELSE [Returned(value, Mul(value.num, Div(cf.val[1], cf.val[2])), "general")
              EXCEPT !.writes = cf.writes]

\* convert, the statement `try: val = _temperature_conversion(...)`
TryTemperature(value, t, general) ==
    IF t.exc = "" THEN Returned(value, t.val, "temperature")
    ELSE IF t.exc = "TypeError" THEN general
    ELSE Raised(t.exc, "temperature")

convert(value, from_unit, to_unit) ==
    TryTemperature(value, _temperature_conversion(value.num, from_unit, to_unit),
                   GeneralPath(value, _get_conversion_factor(from_unit, to_unit, 1)))

(***************************************************************************)
(* The registration statements the module runs when it is imported (those  *)
(* of the modelled part of the catalog, in source order) and the three     *)
(* registration functions.  The factor of O_2, 12.677457000000462 in the   *)
(* source, is kept to the digits 12.677457.                                *)
(***************************************************************************)
Registrations == <<
    [kind |-> "base", symbol |-> <<"m", "o", "l">>],
    [kind |-> "base", symbol |-> <<"c", "d">>],
    [kind |-> "base", symbol |-> <<"k", "g">>],
    [kind |-> "base", symbol |-> <<"m">>],
    [kind |-> "base", symbol |-> <<"s">>],
    [kind |-> "base", symbol |-> <<"A">>],
    [kind |-> "base", symbol |-> <<"K">>],
    [kind |-> "base", symbol |-> <<"b", "i", "t">>],
    [kind |-> "base", symbol |-> <<"d", "B">>],
    [kind |-> "derived", symbol |-> <<"N">>,
     units |-> <<"k", "g", MULTIPLIER, "m", MULTIPLIER, "s", SUP_MINUS, SUP_2>>],
    [kind |-> "derived", symbol |-> <<"P", "a">>,
     units |-> <<"k", "g", MULTIPLIER, "m", SUP_MINUS, SUP_1, MULTIPLIER, "s", SUP_MINUS, SUP_2>>],
    [kind |-> "unit", symbol |-> <<"f", "t">>, factor |-> Dec(3048, -4), units |-> <<"m">>],
    [kind |-> "unit", symbol |-> <<"i", "n">>, factor |-> Dec(254, -4), units |-> <<"m">>],
    [kind |-> "unit", symbol |-> <<"m", "i", SUP_2, "_", "s", "t", "a", "t">>,
     factor |-> Whole(2589990), units |-> <<"m", SUP_2>>],
    [kind |-> "unit", symbol |-> <<"g">>, factor |-> Dec(1, -3), units |-> <<"k", "g">>],
    [kind |-> "unit", symbol |-> <<"h">>, factor |-> Whole(3600), units |-> <<"s">>],
    [kind |-> "unit", symbol |-> <<"A", "q">>, factor |-> Dec(980665, -2), units |-> <<"P", "a">>],
    [kind |-> "unit", symbol |-> <<"O", "_2">>, factor |-> Dec(12677457, -6), units |-> <<"P", "a">>],
    [kind |-> "unit", symbol |-> <<"p", "p", "h">>, factor |-> Dec(1, -3), units |-> <<>>] >>

\* int with every exponent string read as 1
int_one(str) == IF Decimal(str).exc # "" THEN Raise("ValueError") ELSE Ok(1)

\* int(<exponent string>)
int(str) == IF Decimal(str).exc # "" THEN Raise("ValueError") ELSE Decimal(str)

\* the loop `for u in units.split(MULTIPLIER)` of _build_derived_unit (general =
\* FALSE) and of _build_unit (general = TRUE)
RECURSIVE BuildBaseUnits(_, _, _)
BuildBaseUnits(us, general, base_units) ==
    IF us = <<>> THEN Ok(base_units)
    ELSE LET digits == ExponentChars(Head(us))
             unit == SelectSeq(Head(us), NotSuperScript)
             cloned(proto) ==
                 Then(int(IF digits = <<>> THEN <<"1">> ELSE digits),
                      LAMBDA exponent :
                 Then(Call("__call__", <<proto, None, Some(exponent)>>, 2),
                      LAMBDA c : BuildBaseUnits(Tail(us), general, Append(base_units, c))))
         IN  IF unit \in DOMAIN _BASE_UNITS THEN cloned(_BASE_UNITS[unit])
             ELSE IF ~general THEN Raise("KeyError")
             ELSE IF unit \in DOMAIN _NAMED_DERIVED_UNITS THEN cloned(_NAMED_DERIVED_UNITS[unit])
             ELSE IF unit \in DOMAIN _UNITS THEN cloned(_UNITS[unit])
             ELSE IF unit = <<>> THEN BuildBaseUnits(Tail(us), general, base_units)
             ELSE Raise("RuntimeError")

Pending == loaded < Len(Registrations) /\ import_error = ""

\* registration calls made once the module is imported: of symbols that are
\* registered already, of a new symbol, and with factors that are not positive
LateRegistrations == {
    [kind |-> "base", symbol |-> <<"N">>],
    [kind |-> "base", symbol |-> <<"f", "t">>],
    [kind |-> "derived", symbol |-> <<"m">>, units |-> <<"k", "g">>],
    [kind |-> "derived", symbol |-> <<"g">>, units |-> <<"k", "g">>],
    [kind |-> "unit", symbol |-> <<"m">>, factor |-> Whole(2), units |-> <<"m">>],
    [kind |-> "unit", symbol |-> <<"N">>, factor |-> Whole(2), units |-> <<"m">>],
    [kind |-> "unit", symbol |-> <<"f", "t">>, factor |-> Whole(2), units |-> <<"m">>],
    [kind |-> "unit", symbol |-> <<"y", "d">>, factor |-> Dec(9144, -4), units |-> <<"m">>],
    [kind |-> "unit", symbol |-> <<"n", "i", "l">>, factor |-> Whole(0), units |-> <<"m">>],
    [kind |-> "unit", symbol |-> <<"n", "e", "g">>, factor |-> Whole(-1), units |-> <<"m">>] }

\* the registration calls that can run now: the next statement of the import, or,
\* when the module is imported and its caller idle, one late registration
Due ==
    IF Pending THEN {Registrations[loaded + 1]}
    ELSE IF loaded = Len(Registrations) /\ import_error = "" /\ calls = <<>> /\ made = <<>>
         THEN LateRegistrations
    ELSE {}

\* the object `node` and the objects it reaches, as they are once the entry `key`
\* of `table` refers to the object at the head of `path`
RECURSIVE Stored(_, _, _, _)
Stored(node, table, key, path) ==
    IF node.home # <<>> THEN node
    ELSE [node EXCEPT !.home = <<table, key, path>>,
                      !.b_units = [j \in 1..Len(node.b_units) |->
                                      Stored(node.b_units[j], table, key, Append(path, j))]]

\* the object `node` after the assignment of `exponent` to the _exponent of the
\* object it reaches by `path`
RECURSIVE AssignedAt(_, _, _)
AssignedAt(node, path, exponent) ==
    IF path = <<>> THEN [node EXCEPT !.exponent = exponent]
    ELSE [node EXCEPT !.b_units[Head(path)] = AssignedAt(@, Tail(path), exponent)]

\* a catalog table after the assignments `writes`, in order
RECURSIVE Written(_, _, _)
Written(dict, table, writes) ==
    IF writes = <<>> THEN dict
    ELSE Written(IF Head(writes).home[1] = table
                 THEN [dict EXCEPT ![Head(writes).home[2]] =
                                       AssignedAt(@, Head(writes).home[3], Head(writes).exponent)]
                 ELSE dict,
                 table, Tail(writes))

\* what a call leaves of the catalog: each table after the call's assignments to
\* objects of the catalog
Effects(writes) ==
    /\ _BASE_UNITS' = Written(_BASE_UNITS, "base", writes)
    /\ _NAMED_DERIVED_UNITS' = Written(_NAMED_DERIVED_UNITS, "derived", writes)
    /\ _UNITS' = Written(_UNITS, "unit", writes)
    /\ UNCHANGED <<loaded, import_error, Timers>>

\* what a registration statement leaves behind: the table updated, or the import
\* aborted by the exception
Registered(table, built) ==
    /\ IF built.exc # ""
       THEN /\ import_error' = built.exc
            /\ loaded' = loaded
            /\ _BASE_UNITS' = Written(_BASE_UNITS, "base", built.writes)
            /\ _NAMED_DERIVED_UNITS' = Written(_NAMED_DERIVED_UNITS, "derived", built.writes)
            /\ _UNITS' = Written(_UNITS, "unit", built.writes)
       ELSE /\ import_error' = ""
            /\ loaded' = loaded + 1
            /\ _BASE_UNITS' =
                   IF table = "base"
                   THEN (built.val.symbol :> Stored(built.val, table, built.val.symbol, <<>>))
                            @@ Written(_BASE_UNITS, "base", built.writes)
                   ELSE Written(_BASE_UNITS, "base", built.writes)
            /\ _NAMED_DERIVED_UNITS' =
                   IF table = "derived"
                   THEN (built.val.symbol :> Stored(built.val, table, built.val.symbol, <<>>))
                            @@ Written(_NAMED_DERIVED_UNITS, "derived", built.writes)
                   ELSE Written(_NAMED_DERIVED_UNITS, "derived", built.writes)
            /\ _UNITS' =
                   IF table = "unit"
                   THEN (built.val.symbol :> Stored(built.val, table, built.val.symbol, <<>>))
                            @@ Written(_UNITS, "unit", built.writes)
                   ELSE Written(_UNITS, "unit", built.writes)
    /\ UNCHANGED <<calls, made, Timers>>

_build_base_unit ==
    \E reg \in Due :
        /\ reg.kind = "base"
        /\ Registered("base", Call("Unit", <<reg.symbol, <<>>, Whole(1), 1>>, 2))

_build_derived_unit ==
    \E reg \in Due :
        /\ reg.kind = "derived"
        /\ Registered("derived",
               Then(BuildBaseUnits(Split(reg.units, MULTIPLIER), FALSE, <<>>),
                    LAMBDA base_units :
                        Call("Unit", <<reg.symbol, base_units, Whole(1), 1>>, 2)))

_build_unit ==
    \E reg \in Due :
        /\ reg.kind = "unit"
        /\ Registered("unit",
               IF \/ reg.symbol \in DOMAIN _BASE_UNITS
                  \/ reg.symbol \in DOMAIN _NAMED_DERIVED_UNITS
                  \/ reg.symbol \in DOMAIN _UNITS
               THEN Raise("RuntimeError")
               ELSE Then(BuildBaseUnits(Split(reg.units, MULTIPLIER), TRUE, <<>>),
                         LAMBDA base_units :
                             Call("Unit", <<reg.symbol, base_units, reg.factor, 1>>, 2)))

(***************************************************************************)
(* The caller: once the module is imported, convert is called with values  *)
(* and unit strings from the bounded sets below; a call can be followed by *)
(* the conversion of its result back, or by the conversions of a second    *)
(* value and of the sum for the same units.                                *)
(***************************************************************************)
Values == {
    IntValue(0), IntValue(1), IntValue(2), IntValue(71), IntValue(100),
    FloatValue(0, 0), FloatValue(15, -1), FloatValue(71, 0),
    DecimalValue(0, 2), DecimalValue(7100, 2), DecimalValue(2, 0) }

\* Decimal('0.0000001') and Decimal('0.00000012'), which str writes as 1E-7 and
\* 1.2E-7; the caller passes them with units that are not temperature scales
SmallValues == { DecimalValue(1, 7), DecimalValue(12, 8) }

Addends == { IntValue(1), FloatValue(15, -1), DecimalValue(25, 1) }

\* the values a second value is added to are at most MaxOperand
MaxOperand == 2

Operands == {v \in Values : Leq(AbsNum(v.num), Whole(MaxOperand))}

UnitStrings == {
    <<"m">>, <<"s">>, <<"k", "g">>, <<"g">>, <<"f", "t">>, <<"m", "m">>,
    <<"N">>, <<"k", "g", MULTIPLIER, "m", MULTIPLIER, "s", SUP_MINUS, SUP_2>>,
    <<"m", "/", "s">>,
    <<"p", "p", "h">>, <<"x", "y", "z">>,
    DEG_K, DEG_R, DEG_C, DEG_F }

\* the pairs <<from_unit, to_unit>> the caller converts between
UnitPairs ==
    (UnitStrings \X UnitStrings) \cup
    { << <<"i", "n", SUP_3>>, <<"m", "m", SUP_3>> >>,
      << <<"P", "a">>,
         <<"k", "g", MULTIPLIER, "m", SUP_MINUS, SUP_1, MULTIPLIER, "s", SUP_MINUS, SUP_2>> >> }

Imported == loaded = Len(Registrations) /\ import_error = ""

Called(op, value, from_unit, to_unit) ==
    [op |-> op, value |-> value, from_unit |-> from_unit, to_unit |-> to_unit,
     out |-> convert(value, from_unit, to_unit)]

Catalog == <<_BASE_UNITS, _NAMED_DERIVED_UNITS, _UNITS, loaded, import_error>>

TemperatureScales == {DEG_K, DEG_R, DEG_C, DEG_F}

\* convert(value, from_unit, to_unit)
Convert ==
    /\ Imported
    /\ calls = <<>>
    /\ made = <<>>
    /\ \E value \in Values \cup SmallValues, units \in UnitPairs :
           /\ value \in SmallValues => units[1] \notin TemperatureScales
           /\ calls' = <<Called("convert", value, units[1], units[2])>>
    /\ Effects(calls'[Len(calls')].out.writes)
    /\ UNCHANGED made

\* convert(convert(x, A, B), B, A) for <<B, A>> a pair the caller converts between,
\* A a temperature scale if B is one
ConvertBack ==
    /\ Imported
    /\ Len(calls) = 1
    /\ calls[1].out.exc = ""
    /\ <<calls[1].to_unit, calls[1].from_unit>> \in UnitPairs
    /\ calls[1].to_unit \in TemperatureScales => calls[1].from_unit \in TemperatureScales
    /\ calls' = Append(calls,
           Called("back",
                  [kind |-> calls[1].out.ret.kind, num |-> calls[1].out.ret.num,
                   places |-> 0, frac |-> 0],
                  calls[1].to_unit, calls[1].from_unit))
    /\ Effects(calls'[Len(calls')].out.writes)
    /\ UNCHANGED made

\* convert(y, A, B) after convert(x, A, B), y of the type of x
ConvertAlso ==
    /\ Imported
    /\ Len(calls) = 1
    /\ calls[1].value \in Operands
    /\ \E y \in Addends :
           /\ y.kind = calls[1].value.kind
           /\ calls' = Append(calls, Called("also", y, calls[1].from_unit, calls[1].to_unit))
    /\ Effects(calls'[Len(calls')].out.writes)
    /\ UNCHANGED made

\* x + y for two values of one type
Plus(x, y) ==
    LET sum == Add(x.num, y.num)
        frac == IF x.frac > y.frac THEN x.frac ELSE y.frac
        scaled == Mul(sum, Dec(1, frac))
    IN  [kind |-> x.kind, num |-> sum, frac |-> frac,
         places |-> IF x.kind = "Decimal"
                    THEN StrPlaces(scaled.n * Pow10(scaled.e), -frac)
                    ELSE 0]

\* convert(x + y, A, B) after convert(x, A, B) and convert(y, A, B)
ConvertSum ==
    /\ Imported
    /\ Len(calls) = 2
    /\ calls[2].op = "also"
    /\ calls' = Append(calls,
           Called("sum", Plus(calls[1].value, calls[2].value),
                  calls[1].from_unit, calls[1].to_unit))
    /\ Effects(calls'[Len(calls')].out.writes)
    /\ UNCHANGED made

\* the symbols registered by the registration statements
Symbols == {Registrations[r].symbol : r \in 1..Len(Registrations)}

\* every SI prefix followed by every registered symbol
PrefixedTokens == {mapping[j].key \o sym : j \in 1..Len(mapping), sym \in Symbols}

\* the symbols the caller builds units of with an exponent and a factor
BuiltSymbols == { <<"m">>, <<"f", "t">>, <<"i", "n">>, <<"m", "m">>, <<"s">> }

\* exponent=
Exponents == {1, 3}

\* factor=
Factors == { Whole(1), Whole(2), Whole(0), Whole(-2) }

\* unit strings with parentheses, sqrt(...), '/' and exponents that cancel
ExpressionStrings == {
    <<"k", "g", "/", "(", "m", MULTIPLIER, "s", SUP_2, ")">>,
    <<"k", "g", MULTIPLIER, "m", SUP_MINUS, SUP_1, MULTIPLIER, "s", SUP_MINUS, SUP_2>>,
    <<"(", "m", ")">>,
    <<"(", "(", "m", ")", ")">>,
    <<"m", "/", "(", "s", ")">>,
    <<"(", "m", MULTIPLIER, "s", ")", SUP_2>>,
    <<"(", "m", MULTIPLIER, "(", "s", ")", ")">>,
    <<"s", "q", "r", "t", "(", "m", ")">>,
    <<"s", "q", "r", "t", "(", "m", SUP_2, ")">>,
    <<"m", MULTIPLIER, "s", "q", "r", "t", "(", "s", SUP_2, ")">>,
    <<"s", "q", "r", "t", "(", "i", "n", SUP_2, ")", MULTIPLIER, "s">>,
    <<"m", "/", "s", SUP_2>>,
    <<"m", "/", "s", "/", "k", "g">>,
    <<"f", "t", "/", "h">>,
    <<"f", "t", "/", "i", "n", "/", "h">>,
    <<"m", MULTIPLIER, "s", SUP_MINUS, SUP_2>>,
    <<"m", SUP_2, MULTIPLIER, "s", MULTIPLIER, "m", SUP_MINUS, SUP_2>>,
    <<"f", "t", SUP_2, MULTIPLIER, "h">>,
    <<"x", "y", "z", MULTIPLIER, "a", "b", "c">> }

\* unit strings with a medium token, written with and without the separator
CompoundStrings == {
    <<"i", "n", "A", "q">>, <<"i", "n", MULTIPLIER, "A", "q">>,
    <<"i", "n", "H", "2", "O">>, <<"i", "n", MULTIPLIER, "H", "2", "O">>,
    <<"i", "n", "H", "_2", "O">>, <<"i", "n", MULTIPLIER, "H", "_2", "O">>,
    <<"m", "m", "A", "q">>, <<"m", "m", MULTIPLIER, "A", "q">>,
    <<"N", "O", "_2">>, <<"N", MULTIPLIER, "O", "_2">>,
    <<"m", "m", "O", "_2">>, <<"m", "m", MULTIPLIER, "O", "_2">> }

\* Unit(symbol, exponent=exponent, factor=factor)
MakeUnit ==
    /\ Imported
    /\ calls = <<>>
    /\ made = <<>>
    /\ \E sym \in (PrefixedTokens \cup BuiltSymbols \cup Symbols)
                      \cup (ExpressionStrings \cup CompoundStrings),
          exponent \in Exponents, fct \in Factors :
           /\ sym \notin BuiltSymbols => (exponent = 1 /\ fct = Whole(1))
           /\ made' = <<[op |-> "Unit", symbol |-> sym, exponent |-> exponent,
                         factor |-> fct,
                         out |-> Call("Unit", <<sym, <<>>, fct, exponent>>, 1)]>>
    /\ Effects(made'[1].out.writes)
    /\ UNCHANGED calls

\* the unit strings the caller iterates over and reads the factor of
DerivedStrings == {
    <<"N">>, <<"N", SUP_2>>, <<"N", "/", "m">>, <<"P", "a">>, <<"m", "m", SUP_2, MULTIPLIER, "s">>,
    <<"f", "t", MULTIPLIER, "i", "n">>, <<"k", "N">>, <<"m", SUP_2>>, <<"h", SUP_MINUS, SUP_1>>,
    <<"x", "y", "z">> }

\* list(Unit(symbol, exponent=exponent)), and the string combine_units makes of it
IterUnit ==
    /\ Imported
    /\ calls = <<>>
    /\ made = <<>>
    /\ \E sym \in (ExpressionStrings \cup BuiltSymbols) \cup DerivedStrings,
          exponent \in Exponents :
           made' = <<[op |-> "__iter__", symbol |-> sym, exponent |-> exponent,
                      unit |-> Call("Unit", <<sym, <<>>, Whole(1), exponent>>, 1),
                      out |-> Then(Call("Unit", <<sym, <<>>, Whole(1), exponent>>, 1),
                                   LAMBDA self : Call("__iter__", <<self>>, 1)),
                      str_unit |-> Then(Call("Unit", <<sym, <<>>, Whole(1), exponent>>, 1),
                                        LAMBDA self : combine_units(self, 1))]>>
    /\ Effects(made'[1].out.writes)
    /\ UNCHANGED calls

\* the unit Unit(symbol, exponent=exponent, factor=factor) of an operand: [exc, val, writes]
Operand(opnd) == Call("Unit", <<opnd.symbol, <<>>, opnd.factor, opnd.exponent>>, 1)

\* the units the caller reads the factor of: Unit(symbol, base_units=[...],
\* exponent=exponent, factor=factor), each base unit a Unit(symbol,
\* exponent=exponent, factor=factor)
FactorUnits ==
    {[symbol |-> sym, base_units |-> <<>>, exponent |-> 1, factor |-> Whole(1)] :
         sym \in ExpressionStrings \cup DerivedStrings}
    \cup {[symbol |-> sym, base_units |-> <<>>, exponent |-> exponent, factor |-> fct] :
              sym \in BuiltSymbols, exponent \in {1, 2, -1},
              fct \in {Whole(1), Whole(2), Whole(0)}}
    \cup {[symbol |-> <<"s", "q", "r", "t">>,
           base_units |-> <<[symbol |-> <<"m">>, exponent |-> 1, factor |-> Whole(4)]>>,
           exponent |-> exponent, factor |-> fct] :
              exponent \in {1, 2}, fct \in {Whole(1), Whole(4)}}
    \cup {[symbol |-> <<"s", "q", "r", "t">>,
           base_units |-> <<[symbol |-> <<"i", "n">>, exponent |-> 2, factor |-> Whole(1)]>>,
           exponent |-> 1, factor |-> Whole(1)],
          [symbol |-> <<"s", "q", "r", "t">>,
           base_units |-> <<[symbol |-> <<"m">>, exponent |-> 1, factor |-> Whole(-4)]>>,
           exponent |-> 1, factor |-> Whole(1)]}

\* the unit of `made_of`, one of FactorUnits: [exc, val, writes]
RECURSIVE BuiltUnits(_)
BuiltUnits(base_units) ==
    IF base_units = <<>> THEN Ok(<<>>)
    ELSE Then(Operand(Head(base_units)),
              LAMBDA h : Then(BuiltUnits(Tail(base_units)), LAMBDA t : Ok(<<h>> \o t)))

\* Unit(...).factor
FactorOf ==
    /\ Imported
    /\ calls = <<>>
    /\ made = <<>>
    /\ \E made_of \in FactorUnits :
           made' = <<[op |-> "factor", self |-> made_of,
                      unit |-> Then(BuiltUnits(made_of.base_units),
                                    LAMBDA base_units :
                                        Call("Unit", <<made_of.symbol, base_units,
                                                       made_of.factor, made_of.exponent>>, 1)),
                      out |-> Then(BuiltUnits(made_of.base_units),
                                   LAMBDA base_units :
                              Then(Call("Unit", <<made_of.symbol, base_units,
                                                  made_of.factor, made_of.exponent>>, 1),
                                   LAMBDA self : ReadFactor(self)))]>>
    /\ Effects(made'[1].out.writes)
    /\ UNCHANGED calls

\* the units the caller applies the operators to: Unit(symbol, exponent=exponent,
\* factor=factor)
UnitOperands == {
    [symbol |-> <<"m">>, exponent |-> 1, factor |-> Whole(1)],
    [symbol |-> <<"m">>, exponent |-> 1, factor |-> Whole(2)],
    [symbol |-> <<"m">>, exponent |-> 1, factor |-> Whole(0)],
    [symbol |-> <<"s">>, exponent |-> 1, factor |-> Whole(1)],
    [symbol |-> <<"f", "t">>, exponent |-> 1, factor |-> Whole(1)],
    [symbol |-> <<"f", "t">>, exponent |-> 1, factor |-> Whole(2)],
    [symbol |-> <<"i", "n">>, exponent |-> 2, factor |-> Whole(1)],
    [symbol |-> <<"m", "m">>, exponent |-> 1, factor |-> Whole(1)],
    [symbol |-> <<"m", "m">>, exponent |-> 3, factor |-> Whole(1)] }

\* the scalars the caller multiplies a unit with and divides it by
Scalars == { IntValue(0), IntValue(2), IntValue(-3), FloatValue(2, 0), FloatValue(15, -1),
             DecimalValue(2, 0) }

\* other * unit
ScalarTimesUnit ==
    /\ Imported
    /\ calls = <<>>
    /\ made = <<>>
    /\ \E other \in Scalars, opnd \in UnitOperands :
           made' = <<[op |-> "__rmul__", self |-> opnd, other |-> other,
                      out |-> Then(Operand(opnd), LAMBDA self : __rmul__(self, other))]>>
    /\ Effects(made'[1].out.writes)
    /\ UNCHANGED calls

\* unit * other, for a scalar and for a unit
UnitTimes ==
    /\ Imported
    /\ calls = <<>>
    /\ made = <<>>
    /\ \E opnd \in UnitOperands, other \in Scalars \cup UnitOperands :
           /\ (other \in UnitOperands /\ opnd.exponent > 1) => other.exponent = 1
           /\ made' = <<[op |-> "__mul__", self |-> opnd, other |-> other,
                         out |-> Then(Operand(opnd),
                                      LAMBDA self :
                                          IF other \in Scalars THEN __mul__(self, other, 1)
                                          ELSE Then(Operand(other),
                                                    LAMBDA unit : __mul__(self, unit, 1)))]>>
    /\ Effects(made'[1].out.writes)
    /\ UNCHANGED calls

\* unit / other, for a unit and for a scalar
UnitOver ==
    /\ Imported
    /\ calls = <<>>
    /\ made = <<>>
    /\ \E opnd \in UnitOperands, other \in Scalars \cup UnitOperands :
           made' = <<[op |-> "__div__", self |-> opnd, other |-> other,
                      out |-> Then(Operand(opnd),
                                   LAMBDA self :
                                       IF other \in Scalars THEN __div__(self, other)
                                       ELSE Then(Operand(other),
                                                 LAMBDA unit : __div__(self, unit)))]>>
    /\ Effects(made'[1].out.writes)
    /\ UNCHANGED calls

\* the attribute Unit.<sym> that the registration functions set: the object
\* registered under `sym`
Entry(sym) ==
    IF sym \in DOMAIN _BASE_UNITS THEN _BASE_UNITS[sym]
    ELSE IF sym \in DOMAIN _NAMED_DERIVED_UNITS THEN _NAMED_DERIVED_UNITS[sym]
    ELSE _UNITS[sym]

\* the attributes of Unit the caller applies the operators to
Attributes == { <<"m">>, <<"s">>, <<"f", "t">>, <<"N">> }

\* the attributes the caller uses `+=` on
Augmented == { <<"m">>, <<"s">> }

\* the largest exponent the caller's `+=` reach
MaxExponent == 2

\* u = Unit.<sym>; u += Unit.<other>
AttributeIAdd ==
    /\ Imported
    /\ calls = <<>>
    /\ made = <<>>
    /\ \E sym \in Augmented, other \in Attributes :
           /\ Entry(sym).exponent + Entry(other).exponent <= MaxExponent
           /\ made' = <<[op |-> "__iadd__", self |-> sym, other |-> other,
                         out |-> __iadd__(Entry(sym), Entry(other))]>>
    /\ Effects(made'[1].out.writes)
    /\ UNCHANGED calls

\* u = Unit.<sym>; u /= Unit.<other>
AttributeIDiv ==
    /\ Imported
    /\ calls = <<>>
    /\ made = <<>>
    /\ \E sym \in Attributes, other \in Attributes :
           made' = <<[op |-> "__idiv__", self |-> sym, other |-> other,
                      out |-> __idiv__(Entry(sym), Entry(other), 1)]>>
    /\ Effects(made'[1].out.writes)
    /\ UNCHANGED calls

\* Unit.<sym> * Unit.<other>
AttributeTimes ==
    /\ Imported
    /\ calls = <<>>
    /\ made = <<>>
    /\ \E sym \in Attributes, other \in Attributes :
           made' = <<[op |-> "Unit.__mul__", self |-> sym, other |-> other,
                      out |-> __mul__(Entry(sym), Entry(other), 1)]>>
    /\ Effects(made'[1].out.writes)
    /\ UNCHANGED calls

\* Unit.<sym> / Unit.<other>
AttributeOver ==
    /\ Imported
    /\ calls = <<>>
    /\ made = <<>>
    /\ \E sym \in Attributes, other \in Attributes :
           made' = <<[op |-> "Unit.__div__", self |-> sym, other |-> other,
                      out |-> __div__(Entry(sym), Entry(other))]>>
    /\ Effects(made'[1].out.writes)
    /\ UNCHANGED calls

\* Unit.<sym>(), Unit.<sym>(exponent=exponent)
AttributeCall ==
    /\ Imported
    /\ calls = <<>>
    /\ made = <<>>
    /\ \E sym \in Attributes, exponent \in {None, Some(2)} :
           made' = <<[op |-> "Unit.__call__", self |-> sym, exponent |-> exponent,
                      out |-> Call("__call__", <<Entry(sym), None, exponent>>, 1)]>>
    /\ Effects(made'[1].out.writes)
    /\ UNCHANGED calls

\* list(Unit.<sym>)
AttributeIter ==
    /\ Imported
    /\ calls = <<>>
    /\ made = <<>>
    /\ \E sym \in Attributes :
           made' = <<[op |-> "Unit.__iter__", self |-> sym,
                      out |-> Call("__iter__", <<Entry(sym)>>, 1)]>>
    /\ Effects(made'[1].out.writes)
    /\ UNCHANGED calls

\* Unit.<sym>.factor
AttributeFactor ==
    /\ Imported
    /\ calls = <<>>
    /\ made = <<>>
    /\ \E sym \in Attributes :
           made' = <<[op |-> "Unit.factor", self |-> sym,
                      out |-> ReadFactor(Entry(sym))]>>
    /\ Effects(made'[1].out.writes)
    /\ UNCHANGED calls

\* the caller is done with what it has seen
Return ==
    /\ calls # <<>> \/ made # <<>>
    /\ calls' = <<>>
    /\ made' = <<>>
    /\ UNCHANGED <<Catalog, Timers>>

\* a generator nobody has made
NoFrame == [state |-> "none"]

Init ==
    /\ _BASE_UNITS = <<>>
    /\ _NAMED_DERIVED_UNITS = <<>>
    /\ _UNITS = <<>>
    /\ loaded = 0
    /\ import_error = ""
    /\ calls = <<>>
    /\ made = <<>>
    /\ passed = <<>>
    /\ sync = NoFrame
    /\ aio = NoFrame

Next ==
    \/ _build_base_unit
    \/ _build_derived_unit
    \/ _build_unit
    \/ Convert
    \/ ConvertBack
    \/ ConvertAlso
    \/ ConvertSum
    \/ MakeUnit
    \/ IterUnit
    \/ FactorOf
    \/ ScalarTimesUnit
    \/ UnitTimes
    \/ UnitOver
    \/ AttributeIAdd
    \/ AttributeIDiv
    \/ AttributeTimes
    \/ AttributeOver
    \/ AttributeCall
    \/ AttributeIter
    \/ AttributeFactor
    \/ Return

Spec == Init /\ [][Next]_vars

(***************************************************************************)
(* python_utils/time.py: timeout_generator and aio_timeout_generator.  A   *)
(* generator is its frame: the locals, the position in the iterable, and   *)
(* what its consumer has seen of it (the items yielded and the sleeps      *)
(* made).  Durations are whole hundredths of a second; time.perf_counter() *)
(* is the frame's `clock`, which starts at 0 and which a sleep advances by *)
(* the duration slept.                                                     *)
(***************************************************************************)
\* the arguments the caller passes, in hundredths of a second
Timeouts == {0, 10, 25}
Intervals == {6, 10}
Multipliers == {1, 2}
MaximumIntervals == {None, Some(8)}
Iterables == { <<"count">>, <<"a", "b">>, <<"a">>, <<>> }

\* itertools.count yields 0, 1, ...; a string yields its characters
Exhausted(iterable, position) == iterable # <<"count">> /\ position > Len(iterable)

ItemAt(iterable, position) ==
    IF iterable = <<"count">> THEN position - 1 ELSE iterable[position]

\* a frame before its first next(): no statement of the body has run
Created == [state |-> "created", interval |-> 0, end |-> 0, clock |-> 0, position |-> 0,
            yielded |-> <<>>, slept |-> <<>>]

\* `for item in iterable: yield item`: the frame suspended at the yield of the next
\* item, or closed when the iterable is exhausted
YieldNext(frame) ==
    IF Exhausted(passed.iterable, frame.position + 1)
    THEN [frame EXCEPT !.state = "closed"]
    ELSE [frame EXCEPT !.state = "suspended",
                       !.position = @ + 1,
                       !.yielded = Append(@, ItemAt(passed.iterable, frame.position + 1))]

\* the body up to the loop: end = timeout + time.perf_counter()
Entered(frame) ==
    [frame EXCEPT !.interval = passed.interval, !.end = passed.timeout + frame.clock]

\* next(timeout_generator(...)): from where the frame is to its next yield
timeout_generator_next(frame) ==
    IF frame.state = "created" THEN YieldNext(Entered(frame))
    ELSE IF frame.clock >= frame.end THEN [frame EXCEPT !.state = "closed"]
    ELSE LET interval == frame.interval * passed.interval_multiplier
         IN  YieldNext([frame EXCEPT !.interval = interval,
                                     !.clock = @ + interval,
                                     !.slept = Append(@, interval)])

\* min(interval, maximum_interval) when maximum_interval is true
Capped(interval) ==
    IF passed.maximum_interval # None /\ passed.maximum_interval[1] # 0
    THEN (IF passed.maximum_interval[1] < interval THEN passed.maximum_interval[1] ELSE interval)
    ELSE interval

\* await anext(aio_timeout_generator(...))
aio_timeout_generator_next(frame) ==
    IF frame.state = "created" THEN YieldNext(Entered(frame))
    ELSE IF frame.clock >= frame.end THEN [frame EXCEPT !.state = "closed"]
    ELSE YieldNext([frame EXCEPT !.interval = Capped(frame.interval * passed.interval_multiplier),
                                 !.clock = @ + frame.interval,
                                 !.slept = Append(@, frame.interval)])

\* the caller makes the two generators with the same arguments
MakeGenerators ==
    /\ sync.state = "none"
    /\ aio.state = "none"
    /\ \E timeout \in Timeouts, interval \in Intervals, iterable \in Iterables,
          interval_multiplier \in Multipliers, maximum_interval \in MaximumIntervals :
           passed' = [timeout |-> timeout, interval |-> interval, iterable |-> iterable,
                    interval_multiplier |-> interval_multiplier,
                    maximum_interval |-> maximum_interval]
    /\ sync' = Created
    /\ aio' = Created
    /\ UNCHANGED <<Catalog, calls, made>>

\* for item in timeout_generator(timeout, interval, iterable, interval_multiplier)
NextItem ==
    /\ sync.state \in {"created", "suspended"}
    /\ sync' = timeout_generator_next(sync)
    /\ UNCHANGED <<Catalog, calls, made, passed, aio>>

\* async for item in aio_timeout_generator(timeout, interval, iterable,
\* interval_multiplier, maximum_interval)
NextItemAsync ==
    /\ aio.state \in {"created", "suspended"}
    /\ aio' = aio_timeout_generator_next(aio)
    /\ UNCHANGED <<Catalog, calls, made, passed, sync>>

NextTime ==
    \/ MakeGenerators
    \/ NextItem
    \/ NextItemAsync

SpecTime == Init /\ [][NextTime]_vars

(***************************************************************************)
(* The claims about convert, stated over the calls the caller has made.    *)
(***************************************************************************)
IN3 == <<"i", "n", SUP_3>>
MM3 == <<"m", "m", SUP_3>>

\* the homes of the objects of the catalog that the object `node` reaches
RECURSIVE Shared(_)
Shared(node) ==
    (IF node.home = <<>> THEN {} ELSE {node.home}) \cup
    UNION {Shared(node.b_units[j]) : j \in 1..Len(node.b_units)}

\* the sum of the exponents of the units of `bases` whose symbol is sym
RECURSIVE ExponentOf(_, _)
ExponentOf(bases, sym) ==
    IF bases = <<>> THEN 0
    ELSE (IF Head(bases).symbol = sym THEN Head(bases).exponent ELSE 0)
         + ExponentOf(Tail(bases), sym)

\* the canonical base vector of a unit string: the exponent, when it is not 0, of
\* each base symbol its unit decomposes into
BaseVector(unit) ==
    Then(Call("Unit", <<unit, <<>>, Whole(1), 1>>, 1),
         LAMBDA u :
    Then(Call("iter_bases", <<u>>, 1),
         LAMBDA bases :
             Ok([sym \in {bases[j].symbol : j \in 1..Len(bases)} |->
                    ExponentOf(bases, sym)])))

NonZero(vector) == {sym \in DOMAIN vector : vector[sym] # 0}

\* both unit strings decompose into registered base units
Dimensioned(from_unit, to_unit) ==
    /\ from_unit \notin TemperatureScales
    /\ BaseVector(from_unit).exc = ""
    /\ BaseVector(to_unit).exc = ""
    /\ DOMAIN BaseVector(from_unit).val \subseteq DOMAIN _BASE_UNITS
    /\ DOMAIN BaseVector(to_unit).val \subseteq DOMAIN _BASE_UNITS

SameVector(v, w) ==
    /\ NonZero(v) = NonZero(w)
    /\ \A sym \in NonZero(v) : v[sym] = w[sym]

Compatible(from_unit, to_unit) ==
    /\ Dimensioned(from_unit, to_unit)
    /\ SameVector(BaseVector(from_unit).val, BaseVector(to_unit).val)

\* C1: convert between units whose canonical base vectors differ raises
\* ValueError (IncompatibleUnits) and returns no number
C1_IncompatibleUnitsFail ==
    \A i \in DOMAIN calls :
        (/\ Dimensioned(calls[i].from_unit, calls[i].to_unit)
         /\ ~Compatible(calls[i].from_unit, calls[i].to_unit))
        => calls[i].out.exc = "ValueError"

\* the atomic tokens of a unit string without parentheses
AtomicTokens(unit) ==
    {SelectSeq(Split(Split(unit, "/")[j], MULTIPLIER)[k], NotSuperScript) :
        <<j, k>> \in {jk \in (1..Len(unit)) \X (1..Len(unit)) :
                        /\ jk[1] <= Len(Split(unit, "/"))
                        /\ jk[2] <= Len(Split(Split(unit, "/")[jk[1]], MULTIPLIER))}}

InCatalog(sym) ==
    sym \in (DOMAIN _BASE_UNITS \cup DOMAIN _NAMED_DERIVED_UNITS) \cup DOMAIN _UNITS

\* the token resolves by catalog lookup or by prefix-stripped catalog lookup
Resolves(token) ==
    \/ InCatalog(token)
    \/ \E j \in 1..Len(mapping) :
           /\ StartsWith(token, mapping[j].key)
           /\ InCatalog(SubSeq(token, Len(mapping[j].key) + 1, Len(token)))

\* C2: convert with a unit string one of whose atomic tokens resolves neither by
\* catalog lookup nor by prefix-stripped catalog lookup fails (UnitNotFound); it
\* returns no number
C2_UnresolvedTokenFails ==
    \A i \in DOMAIN calls :
        (/\ calls[i].from_unit \notin TemperatureScales
         /\ calls[i].to_unit \notin TemperatureScales
         /\ \E token \in AtomicTokens(calls[i].from_unit) \cup AtomicTokens(calls[i].to_unit) :
                ~Resolves(token))
        => calls[i].out.exc # ""

\* C3: convert from a temperature scale to a unit that is not a temperature
\* scale raises TypeError (NotATemperature); it returns no number
C3_NotATemperatureFails ==
    \A i \in DOMAIN calls :
        (/\ calls[i].from_unit \in TemperatureScales
         /\ calls[i].to_unit \notin TemperatureScales)
        => calls[i].out.exc = "TypeError"

\* the affine table of the temperature scales: to kelvin and from kelvin
fromScale(scale, x) ==
    CASE scale = DEG_K -> x
      [] scale = DEG_R -> Div(x, Dec(18, -1))
      [] scale = DEG_C -> Add(x, Dec(27315, -2))
      [] scale = DEG_F -> Div(Add(x, Dec(45967, -2)), Dec(18, -1))

toScale(scale, k) ==
    CASE scale = DEG_K -> k
      [] scale = DEG_R -> Mul(k, Dec(18, -1))
      [] scale = DEG_C -> Sub(k, Dec(27315, -2))
      [] scale = DEG_F -> Sub(Mul(k, Dec(18, -1)), Dec(45967, -2))

\* C4: for every ordered pair of temperature scales the value convert computes
\* before precision shaping is toScale(fromScale(value)) of the affine table
C4_AffineTable ==
    \A i \in DOMAIN calls :
        (/\ calls[i].from_unit \in TemperatureScales
         /\ calls[i].to_unit \in TemperatureScales)
        => /\ calls[i].out.exc = ""
           /\ calls[i].out.val =
                  toScale(calls[i].to_unit, fromScale(calls[i].from_unit, calls[i].value.num))

\* C5: the precision policy shapes the result of the temperature path:
\* convert(100, '°C', '°F') returns the integer 212; convert(0, '°C', '°K') returns
\* the float 273.15 for the float 0.0 and for the Decimal 0.00, the integer 273
\* for the integer 0
C5_TemperaturePrecision ==
    \A i \in DOMAIN calls :
        LET c == calls[i]
        IN  /\ (c.from_unit = DEG_C /\ c.to_unit = DEG_F /\ c.value = IntValue(100))
               => c.out.exc = "" /\ c.out.ret = [kind |-> "int", num |-> Whole(212)]
            /\ (c.from_unit = DEG_C /\ c.to_unit = DEG_K
                   /\ c.value \in {FloatValue(0, 0), DecimalValue(0, 2)})
               => c.out.exc = "" /\ c.out.ret = [kind |-> "float", num |-> Dec(27315, -2)]
            /\ (c.from_unit = DEG_C /\ c.to_unit = DEG_K /\ c.value = IntValue(0))
               => c.out.exc = "" /\ c.out.ret = [kind |-> "int", num |-> Whole(273)]

\* C5, its case: convert(0, '°C', '°K') has returned 273 for the integer 0
C5_Witness ==
    \E i \in DOMAIN calls :
        /\ calls[i].from_unit = DEG_C /\ calls[i].to_unit = DEG_K
        /\ calls[i].value = IntValue(0)
        /\ calls[i].out.path = "temperature"
        /\ calls[i].out.ret.num = Whole(273)

\* C6: convert(x, U, U) returns x for every registered symbol U and every
\* temperature scale U, whatever the representation of x
C6_Identity ==
    \A i \in DOMAIN calls :
        (/\ calls[i].from_unit = calls[i].to_unit
         /\ InCatalog(calls[i].from_unit) \/ calls[i].from_unit \in TemperatureScales)
        => /\ calls[i].out.exc = ""
           /\ calls[i].out.ret.num = calls[i].value.num

\* the caller has converted x, then y, then x + y between the same units, all on
\* the general path
Summed ==
    /\ Len(calls) = 3
    /\ calls[3].op = "sum"
    /\ \A i \in 1..3 : calls[i].out.exc = "" /\ calls[i].out.path = "general"

\* C7 as claimed: for compatible non-temperature units A, B and values x, y of any
\* representation, plain integers included,
\* convert(x + y, A, B) = convert(x, A, B) + convert(y, A, B)
C7_LinearityAsClaimed ==
    (Summed /\ Compatible(calls[1].from_unit, calls[1].to_unit))
    => calls[3].out.ret.num = Add(calls[1].out.ret.num, calls[2].out.ret.num)

\* C7 as amended: on the general path the value before precision shaping is
\* linear, so is the result for floats, and the results for plain integers, each
\* rounded, differ by at most 1
C7_Linearity ==
    Summed
    => /\ calls[3].out.val = Add(calls[1].out.val, calls[2].out.val)
       /\ calls[1].value.kind = "float"
          => calls[3].out.ret.num = Add(calls[1].out.ret.num, calls[2].out.ret.num)
       /\ calls[1].value.kind = "int"
          => Leq(AbsNum(Sub(calls[3].out.ret.num,
                            Add(calls[1].out.ret.num, calls[2].out.ret.num))),
                 Whole(1))

\* C7, its case: 1 m and 1 m are 3 ft each, rounded, and 2 m are 7 ft
C7_Witness ==
    /\ Summed
    /\ calls[1].from_unit = <<"m">> /\ calls[1].to_unit = <<"f", "t">>
    /\ calls[1].value = IntValue(1) /\ calls[2].value = IntValue(1)
    /\ calls[1].out.ret.num = Whole(3)
    /\ calls[3].out.ret.num = Whole(7)

\* the caller has converted x from A to B and the result back from B to A
ConvertedBack ==
    /\ Len(calls) = 2
    /\ calls[2].op = "back"
    /\ calls[1].out.exc = ""

\* the tolerance of a round trip, relative to the value
Tolerance == Dec(1, -6)

EffectiveFactor ==
    (<<"m">> :> Whole(1)) @@ (<<"k", "g">> :> Whole(1)) @@ (<<"s">> :> Whole(1)) @@
    (<<"N">> :> Whole(1)) @@ (<<"m", "m">> :> Dec(1, -3)) @@ (<<"g">> :> Dec(1, -3)) @@
    (<<"f", "t">> :> Dec(3048, -4)) @@ (<<"m", "/", "s">> :> Whole(1)) @@
    (<<"k", "g", MULTIPLIER, "m", MULTIPLIER, "s", SUP_MINUS, SUP_2>> :> Whole(1))

\* C9: on the general path the value before precision shaping is
\* value * (effective factor of from_unit / effective factor of to_unit);
\* convert(1, 'm', 'mm') and convert(1, 'kg', 'g') return 1000
C9_FactorRatio ==
    \A i \in DOMAIN calls :
        LET c == calls[i]
        IN  /\ (c.from_unit \in DOMAIN EffectiveFactor /\ c.to_unit \in DOMAIN EffectiveFactor)
               => /\ c.out.exc = ""
                  /\ c.out.path = "general"
                  /\ c.out.val = Mul(c.value.num,
                                     Div(EffectiveFactor[c.from_unit],
                                         EffectiveFactor[c.to_unit]))
            /\ (/\ c.value = IntValue(1)
                /\ <<c.from_unit, c.to_unit>> \in
                       { << <<"m">>, <<"m", "m">> >>, << <<"k", "g">>, <<"g">> >> })
               => c.out.ret = [kind |-> "int", num |-> Whole(1000)]

\* C9, its case: convert(1, 'm', 'mm') has returned 1000
C9_Witness ==
    \E i \in DOMAIN calls :
        /\ calls[i].value = IntValue(1)
        /\ calls[i].from_unit = <<"m">> /\ calls[i].to_unit = <<"m", "m">>
        /\ calls[i].out.path = "general"
        /\ calls[i].out.ret.num = Whole(1000)

\* C10 as claimed: convert(71, 'in^3', 'mm^3') returns 1163550.4, to less than 1
C10_CubicInchAsClaimed ==
    \A i \in DOMAIN calls :
        (/\ calls[i].from_unit = IN3 /\ calls[i].to_unit = MM3
         /\ calls[i].value \in {IntValue(71), FloatValue(71, 0)})
        => /\ calls[i].out.exc = ""
           /\ Leq(AbsNum(Sub(calls[i].out.ret.num, Dec(11635504, -1))), Whole(1))

\* C10 as amended: the value convert(71, 'in^3', 'mm^3') computes is
\* 71 * (0.0254 / 0.001)^3 = 1163481.544, the exponent 3 applied to both factors;
\* it returns the integer 1163482 for the integer 71, 1163481.544 for the float
C10_CubicInch ==
    \A i \in DOMAIN calls :
        (/\ calls[i].from_unit = IN3 /\ calls[i].to_unit = MM3
         /\ calls[i].value \in {IntValue(71), FloatValue(71, 0)})
        => /\ calls[i].out.exc = ""
           /\ calls[i].out.val = Mul(Whole(71), PowNat(Div(Dec(254, -4), Dec(1, -3)), 3))
           /\ calls[i].out.val = Dec(1163481544, -3)
           /\ calls[i].out.ret.num =
                  IF calls[i].value.kind = "int" THEN Whole(1163482) ELSE Dec(1163481544, -3)

\* C10, its case: convert(71, 'in^3', 'mm^3') has returned 1163482
C10_Witness ==
    \E i \in DOMAIN calls :
        /\ calls[i].from_unit = IN3 /\ calls[i].to_unit = MM3
        /\ calls[i].value = IntValue(71)
        /\ calls[i].out.ret = [kind |-> "int", num |-> Whole(1163482)]

\* C11: a named derived unit equals its explicit decomposition: for every symbol D
\* registered by _build_derived_unit with the expression E, D and E have the same
\* base vector, convert(x, D, E) computes x and convert(1, D, E) returns 1
C11_DerivedEqualsDecomposition ==
    \A i \in DOMAIN calls, r \in 1..Len(Registrations) :
        (/\ Registrations[r].kind = "derived"
         /\ calls[i].from_unit = Registrations[r].symbol
         /\ calls[i].to_unit = Registrations[r].units)
        => /\ Compatible(calls[i].from_unit, calls[i].to_unit)
           /\ calls[i].out.exc = ""
           /\ calls[i].out.val = calls[i].value.num
           /\ calls[i].value = IntValue(1)
              => calls[i].out.ret = [kind |-> "int", num |-> Whole(1)]

\* C11, its case: convert(1, 'N', 'kg*m*s^-2') has returned 1 on the general path
C11_Witness ==
    \E i \in DOMAIN calls :
        /\ calls[i].from_unit = <<"N">>
        /\ calls[i].to_unit = <<"k", "g", MULTIPLIER, "m", MULTIPLIER, "s", SUP_MINUS, SUP_2>>
        /\ calls[i].value = IntValue(1)
        /\ calls[i].out.path = "general"
        /\ calls[i].out.ret = [kind |-> "int", num |-> Whole(1)]

\* C12: the precision policy, whatever the conversion factor: convert returns a
\* float for a float; for a Decimal with k > 0 fractional digits the result rounded
\* to k fractional digits; for a Decimal without fractional digits and for a plain
\* integer the result rounded to the nearest integer
C12_PrecisionPolicy ==
    \A i \in DOMAIN calls :
        LET c == calls[i]
        IN  c.out.exc = ""
            => /\ c.value.kind = "float"
                  => c.out.ret = [kind |-> "float", num |-> c.out.val]
               /\ (c.value.kind = "Decimal" /\ c.value.frac > 0)
                  => c.out.ret.num = RoundHalfEven(c.out.val, c.value.frac)
               /\ (c.value.kind = "int" \/ (c.value.kind = "Decimal" /\ c.value.frac = 0))
                  => c.out.ret = [kind |-> "int", num |-> RoundHalfEven(c.out.val, 0)]

(***************************************************************************)
(* The claims about class Unit, stated over the units the caller has made. *)
(***************************************************************************)
\* C13: for each SI prefix p and each registered symbol s, of any of the three
\* tables, such that p+s is not itself registered, parsing the token p+s yields one
\* node, whose own factor is the multiplier of p and whose decomposition is s
C13_PrefixResolution ==
    \A i \in DOMAIN made, j \in 1..Len(mapping), sym \in Symbols :
        (/\ made[i].op = "Unit"
         /\ made[i].symbol = mapping[j].key \o sym
         /\ ~InCatalog(made[i].symbol))
        => /\ made[i].out.exc = ""
           /\ Len(made[i].out.val.b_units) = 1
           /\ made[i].out.val.b_units[1].factor = mapping[j].factor
           /\ Len(made[i].out.val.b_units[1].b_units) = 1
           /\ made[i].out.val.b_units[1].b_units[1].symbol = sym

(***************************************************************************)
(* The claims about the registration functions.                            *)
(***************************************************************************)
\* C14: a registration whose symbol exists already in one of the three tables
\* fails and inserts nothing, so the key sets of _BASE_UNITS, _NAMED_DERIVED_UNITS
\* and _UNITS are pairwise disjoint after any sequence of registrations
C14_TablesDisjoint ==
    /\ DOMAIN _BASE_UNITS \cap DOMAIN _NAMED_DERIVED_UNITS = {}
    /\ DOMAIN _BASE_UNITS \cap DOMAIN _UNITS = {}
    /\ DOMAIN _NAMED_DERIVED_UNITS \cap DOMAIN _UNITS = {}

C16_ParseTreeFresh ==
    \A i \in DOMAIN made :
        (made[i].op = "Unit" /\ made[i].out.exc = "") => Shared(made[i].out.val) = {}

\* the own factor of the object `node` and of every object it reaches is above 0
RECURSIVE Positive(_)
Positive(node) ==
    /\ node.factor.n > 0
    /\ \A j \in 1..Len(node.b_units) : Positive(node.b_units[j])

\* C17: the scale factor of every Unit is strictly positive: that of every entry
\* of the catalog, and of every unit made by the constructor, with the nodes its
\* parse produced
C17_PositiveFactors ==
    /\ \A sym \in DOMAIN _BASE_UNITS : Positive(_BASE_UNITS[sym])
    /\ \A sym \in DOMAIN _NAMED_DERIVED_UNITS : Positive(_NAMED_DERIVED_UNITS[sym])
    /\ \A sym \in DOMAIN _UNITS : Positive(_UNITS[sym])
    /\ \A i \in DOMAIN made :
           (made[i].op = "Unit" /\ made[i].out.exc = "") => Positive(made[i].out.val)

(***************************************************************************)
(* The claims about the operators of class Unit.                           *)
(***************************************************************************)
\* the effective factor of the unit of the operand `opnd`
OperandFactor(opnd) == factor(Operand(opnd).val)

\* C18: a scalar times a unit, in either order of the operands, never raises for
\* an int or a float scalar and gives a number of the scalar's own kind, an int
\* for an int and a float for a float, the float being the scalar times the
\* effective factor of the unit
C18_ScalarApplication ==
    \A i \in DOMAIN made :
        (/\ made[i].op \in {"__rmul__", "__mul__"}
         /\ ~IsUnit(made[i].other)
         /\ made[i].other.kind \in {"int", "float"})
        => /\ made[i].out.exc = ""
           /\ made[i].out.val.kind = made[i].other.kind
           /\ made[i].other.kind = "float"
              => made[i].out.val.num = Mul(made[i].other.num, OperandFactor(made[i].self))

\* C19: a unit over a unit returns the plain number that is the effective factor
\* of the left operand over that of the right one, and builds no unit; a unit over
\* what is not a unit raises TypeError
C19_Ratio ==
    \A i \in DOMAIN made :
        made[i].op = "__div__"
        => IF IsUnit(made[i].other)
           THEN /\ made[i].out.exc = ""
                /\ ~IsUnit(made[i].out.val)
                /\ Mul(made[i].out.val.num, OperandFactor(made[i].other))
                       = OperandFactor(made[i].self)
           ELSE made[i].out.exc = "TypeError"

\* C20: a unit times a unit returns a new compound unit whose symbol is the symbol
\* of the left operand, the multiplication glyph and the symbol of the right one,
\* whose children are the two operands themselves, and whose effective factor is
\* therefore the product of the effective factors of the operands
C20_Composition ==
    \A i \in DOMAIN made :
        (made[i].op = "__mul__" /\ IsUnit(made[i].other))
        => /\ made[i].out.exc = ""
           /\ symbol(made[i].out.val).val
                  = (symbol(Operand(made[i].self).val).val \o <<MULTIPLIER>>)
                        \o symbol(Operand(made[i].other).val).val
           /\ made[i].out.val.b_units
                  = <<Operand(made[i].self).val, Operand(made[i].other).val>>
           /\ factor(made[i].out.val)
                  = Mul(OperandFactor(made[i].self), OperandFactor(made[i].other))

(***************************************************************************)
(* The claim about the generators of python_utils/time.py.                 *)
(***************************************************************************)
\* C21: made with the same timeout, interval, iterable and interval_multiplier
\* and no maximum_interval, timeout_generator and aio_timeout_generator, once
\* both have ended, have yielded the same items in the same order and have
\* waited the same durations between them
C21_SameAsSync ==
    (/\ sync.state = "closed"
     /\ aio.state = "closed"
     /\ passed.maximum_interval = None)
    => /\ sync.yielded = aio.yielded
       /\ sync.slept = aio.slept

(***************************************************************************)
(* The claims about the parser, stated over the units the caller has made. *)
(***************************************************************************)
\* C22: the parse of every unit string ends by itself, with a unit or with an
\* exception of the parser: no chain of _process_unit calls enters with the same
\* string again and again until the interpreter's recursion limit stops it
C22_ParsingTerminates ==
    \A i \in DOMAIN made :
        made[i].op = "Unit" => made[i].out.exc # "RecursionError"

\* the sum, over the units without base units that the units of `units` reach
\* with the symbol `sym`, of the product of the exponents on the way down to
\* them, `exponent` being the product above `units`
RECURSIVE LeafSum(_, _, _)
LeafSum(units, sym, exponent) ==
    IF units = <<>> THEN 0
    ELSE LeafSum(Tail(units), sym, exponent)
         + (IF Head(units).b_units # <<>>
            THEN LeafSum(Head(units).b_units, sym, exponent * Head(units).exponent)
            ELSE IF Head(units).symbol = sym THEN exponent * Head(units).exponent
            ELSE 0)

\* the symbols of the units without base units that the units of `units` reach
RECURSIVE LeafSymbols(_)
LeafSymbols(units) ==
    IF units = <<>> THEN {}
    ELSE LeafSymbols(Tail(units))
         \cup (IF Head(units).b_units # <<>> THEN LeafSymbols(Head(units).b_units)
               ELSE {Head(units).symbol})

C24_EffectiveFactor ==
    \A i \in DOMAIN made :
        (made[i].op = "factor" /\ made[i].unit.exc = "")
        => /\ made[i].out.exc = ""
           /\ made[i].out.val
                  = IF made[i].unit.val.symbol = <<"s", "q", "r", "t">>
                    THEN Sqrt(Mul(made[i].unit.val.factor,
                                  FactorProduct(made[i].unit.val.b_units)))
                    ELSE Pow(Mul(made[i].unit.val.factor,
                                 FactorProduct(made[i].unit.val.b_units)),
                             made[i].unit.val.exponent)

\* the terms with a factor sqrt(E) that the caller parses: the base exponents and
\* the factor of the term when sqrt(E) stands for E with every exponent halved
\* and for the square root of the factor of E
SqrtTerms == {
    [symbol |-> <<"s", "q", "r", "t", "(", "i", "n", SUP_2, ")", MULTIPLIER, "s">>,
     bases |-> << <<<<"m">>, 1>>, <<<<"s">>, 1>> >>, factor |-> Dec(254, -4)],
    [symbol |-> <<"m", MULTIPLIER, "s", "q", "r", "t", "(", "s", SUP_2, ")">>,
     bases |-> << <<<<"m">>, 1>>, <<<<"s">>, 1>> >>, factor |-> Whole(1)] }

\* C25: a factor sqrt(E) of a term gives the term one node, with the symbol
\* 'sqrt': the term of 'sqrt(in²)⋅s' has two nodes, one of them the 'sqrt', its
\* base exponents are those of E halved (m¹, s¹) and its factor is the square
\* root of the factor of E (0.0254) times that of s
C25_SquareRoot ==
    \A i \in DOMAIN made, term \in SqrtTerms :
        /\ (made[i].op = "Unit" /\ made[i].symbol = term.symbol)
           => /\ made[i].out.exc = ""
              /\ Len(made[i].out.val.b_units) = 1
              /\ Len(made[i].out.val.b_units[1].b_units) = 2
              /\ \E j \in {1, 2} :
                     made[i].out.val.b_units[1].b_units[j].symbol = <<"s", "q", "r", "t">>
        /\ (made[i].op = "__iter__" /\ made[i].symbol = term.symbol /\ made[i].exponent = 1)
           => /\ made[i].out.exc = ""
              /\ [j \in DOMAIN made[i].out.val |->
                      <<made[i].out.val[j].symbol, made[i].out.val[j].exponent>>]
                     = term.bases
        /\ (made[i].op = "factor" /\ made[i].self.symbol = term.symbol)
           => made[i].out = Ok(term.factor)

\* the base units list(Unit(unit)) yields, as a set of <<symbol, exponent>>
FlatOf(unit) ==
    LET bases == Then(Call("Unit", <<unit, <<>>, Whole(1), 1>>, 1),
                      LAMBDA self : Call("__iter__", <<self>>, 1)).val
    IN  {<<bases[j].symbol, bases[j].exponent>> : j \in DOMAIN bases}

\* strings with a parenthesised group, each with the same expression written
\* without parentheses
Grouped == {
    << <<"k", "g", "/", "(", "m", MULTIPLIER, "s", SUP_2, ")">>,
       <<"k", "g", MULTIPLIER, "m", SUP_MINUS, SUP_1, MULTIPLIER, "s", SUP_MINUS, SUP_2>> >>,
    << <<"(", "m", MULTIPLIER, "(", "s", ")", ")">>,
       <<"m", MULTIPLIER, "s">> >> }

\* C26: a parenthesised group is parsed by a recursive call and stands in its
\* term for the units it holds: 'kg/(m⋅s²)' has the base exponents and the factor
\* of 'kg⋅m⁻¹⋅s⁻²'
C26_Parentheses ==
    \A i \in DOMAIN made, pair \in Grouped :
        /\ (made[i].op = "__iter__" /\ made[i].symbol = pair[1] /\ made[i].exponent = 1)
           => /\ made[i].out.exc = ""
              /\ {<<made[i].out.val[j].symbol, made[i].out.val[j].exponent>> :
                      j \in DOMAIN made[i].out.val} = FlatOf(pair[2])
        /\ (made[i].op = "factor" /\ made[i].self.symbol = pair[1])
           => /\ made[i].out.exc = ""
              /\ made[i].out.val = factor(Call("Unit", <<pair[2], <<>>, Whole(1), 1>>, 1).val)

\* strings 't0/t1/.../tn' with no '/' inside parentheses, every term of which
\* is made of symbols that resolve
DivisionStrings == {
    <<"m", "/", "s", SUP_2>>, <<"m", "/", "s", "/", "k", "g">>, <<"f", "t", "/", "h">>,
    <<"f", "t", "/", "i", "n", "/", "h">>, <<"N", "/", "m">>,
    <<"m", "/", "(", "s", ")">>, <<"k", "g", "/", "(", "m", MULTIPLIER, "s", SUP_2, ")">> }

\* the units of the term `term` parsed by itself, a term in parentheses being
\* what the parentheses hold
TermUnits(term) ==
    IF Head(term) = "(" /\ term[Len(term)] = ")"
    THEN Call("_process_unit", <<SubSeq(term, 2, Len(term) - 1), TRUE>>, 1).val
    ELSE Call("_process_unit", <<term, TRUE>>, 1).val

\* the exponent of the base symbol `sym` in the quotient of the first of `terms`
\* by the others
RECURSIVE QuotientExponent(_, _, _)
QuotientExponent(terms, k, sym) ==
    IF k > Len(terms) THEN 0
    ELSE (IF k = 1 THEN LeafSum(TermUnits(terms[k]), sym, 1)
          ELSE -LeafSum(TermUnits(terms[k]), sym, 1))
         + QuotientExponent(terms, k + 1, sym)

\* the factor of the quotient of the first of `terms` by the others
RECURSIVE QuotientFactor(_, _)
QuotientFactor(terms, k) ==
    IF k > Len(terms) THEN Whole(1)
    ELSE Mul(IF k = 1 THEN FactorProduct(TermUnits(terms[k]))
             ELSE Inv(FactorProduct(TermUnits(terms[k]))),
             QuotientFactor(terms, k + 1))

\* C27: a string 't0/t1/.../tn' is parsed to one unit for each term, the first
\* with exponent 1 and the others with exponent -1; its factor is the factor of
\* t0 over the factors of the other terms, and flattened it has, for each base
\* symbol, the exponent in t0 minus the exponents in the other terms
C27_Division ==
    \A i \in DOMAIN made :
        /\ (made[i].op = "Unit" /\ made[i].symbol \in DivisionStrings)
           => /\ made[i].out.exc = ""
              /\ Len(made[i].out.val.b_units) = Len(Split(made[i].symbol, "/"))
              /\ \A k \in DOMAIN made[i].out.val.b_units :
                     /\ made[i].out.val.b_units[k].exponent = IF k = 1 THEN 1 ELSE -1
                     /\ made[i].out.val.b_units[k].factor = Whole(1)
                     /\ made[i].out.val.b_units[k].b_units
                            = TermUnits(Split(made[i].symbol, "/")[k])
        /\ (made[i].op = "__iter__" /\ made[i].symbol \in DivisionStrings
                /\ made[i].exponent = 1)
           => /\ made[i].out.exc = ""
              /\ \A j \in DOMAIN made[i].out.val :
                     made[i].out.val[j].exponent
                         = QuotientExponent(Split(made[i].symbol, "/"), 1,
                                            made[i].out.val[j].symbol)
              /\ \A sym \in DOMAIN _BASE_UNITS :
                     QuotientExponent(Split(made[i].symbol, "/"), 1, sym) # 0
                     => \E j \in DOMAIN made[i].out.val : made[i].out.val[j].symbol = sym
        /\ (made[i].op = "factor" /\ made[i].self.symbol \in DivisionStrings)
           => made[i].out = Ok(QuotientFactor(Split(made[i].self.symbol, "/"), 1))

\* a unit followed by a medium token, without the separator and with it
Compounds == {
    << <<"i", "n", "A", "q">>, <<"i", "n", MULTIPLIER, "A", "q">> >>,
    << <<"i", "n", "H", "2", "O">>, <<"i", "n", MULTIPLIER, "H", "2", "O">> >>,
    << <<"i", "n", "H", "_2", "O">>, <<"i", "n", MULTIPLIER, "H", "_2", "O">> >>,
    << <<"m", "m", "A", "q">>, <<"m", "m", MULTIPLIER, "A", "q">> >>,
    << <<"N", "O", "_2">>, <<"N", MULTIPLIER, "O", "_2">> >>,
    << <<"m", "m", "O", "_2">>, <<"m", "m", MULTIPLIER, "O", "_2">> >> }

\* C28: a unit immediately followed by one of the medium tokens H2O, H_2O, Hg,
\* O2, O_2 or Aq parses to the factor and the base exponents of the same string
\* with the separator between the unit and the medium
C28_CompoundTokens ==
    \A i \in DOMAIN made, pair \in Compounds :
        (made[i].op = "Unit" /\ made[i].symbol = pair[1])
        => LET separated == Call("Unit", <<pair[2], <<>>, Whole(1), 1>>, 1)
               bases == Call("__iter__", <<made[i].out.val>>, 1).val
           IN  /\ made[i].out.exc = ""
               /\ separated.exc = ""
               /\ ReadFactor(made[i].out.val) = ReadFactor(separated.val)
               /\ {<<bases[j].symbol, bases[j].exponent>> : j \in DOMAIN bases}
                      = FlatOf(pair[2])

\* C29: a registered symbol given as a whole unit string resolves to its own
\* catalog entry: Unit(symbol) has the factor of the entry and its base exponents,
\* also when the symbol holds a superscript, as 'mi^2_stat' does
C29_RegisteredSymbols ==
    \A i \in DOMAIN made :
        (made[i].op = "Unit" /\ made[i].symbol \in Symbols
            /\ made[i].exponent = 1 /\ made[i].factor = Whole(1))
        => LET bases == Call("__iter__", <<made[i].out.val>>, 1).val
               entry == Call("__iter__", <<Entry(made[i].symbol)>>, 1).val
           IN  /\ made[i].out.exc = ""
               /\ ReadFactor(made[i].out.val) = ReadFactor(Entry(made[i].symbol))
               /\ {<<bases[j].symbol, bases[j].exponent>> : j \in DOMAIN bases}
                      = {<<entry[j].symbol, entry[j].exponent>> : j \in DOMAIN entry}

\* C30: no operation on units taken from the catalog assigns to an object of the
\* catalog: after `*`, `/`, `/=`, `+=`, a clone, an iteration or a read of the
\* factor of Unit.<sym>, the three tables are as they were before it
C30_OperandsUnchanged ==
    [][(made' # made /\ made' # <<>>
           /\ made'[1].op \in {"__iadd__", "__idiv__", "Unit.__mul__", "Unit.__div__",
                                "Unit.__call__", "Unit.__iter__", "Unit.factor"})
       => /\ made'[1].out.writes = <<>>
          /\ _BASE_UNITS' = _BASE_UNITS
          /\ _NAMED_DERIVED_UNITS' = _NAMED_DERIVED_UNITS
          /\ _UNITS' = _UNITS]_vars

====
